---- MODULE Spec2Model ----
(***************************************************************************)
(* Model of the Google Maps scraper: the discovery scroll loop and the     *)
(* per-item extraction of scrape_google_maps, the run_scrape endpoint that *)
(* sequences scraping and persistence under a deadline, and the            *)
(* upsert_entities / upsert_scrape_history persistence helpers.            *)
(***************************************************************************)
EXTENDS Integers, Sequences, FiniteSets, TLC

VARIABLES
    \* ---- upsert_entities / upsert_scrape_history called directly ----
    u_records,      \* the `records` argument (a list of dicts)
    u_page_size,    \* the `page_size` argument
    u_calls,        \* number of completed calls with these arguments
    u_ret,          \* outcome of the last call: returned count or raised
    u_before,       \* the table the call writes, as it was before the last call
    \* ---- the two tables of the backing store ----
    entities,       \* rows of table `entities`, in insertion order
    history,        \* rows of table `scrape_history`, in insertion order
    \* ---- one run of run_scrape / scrape_google_maps ----
    pc,             \* position of the run
    query,          \* request parameter `query`
    max_places,     \* request parameter `max_places` (None or an int)
    browser,        \* "none", "open" or "closed"
    place_links,    \* the set place_links
    last_height,    \* last_height of the scroll loop
    scroll_attempts_no_new,
    todo,           \* links the `for link in place_links` loop has not reached
    results,        \* the list `results`
    rows_added,     \* value returned by upsert_entities to run_scrape
    outcome,        \* what the caller of run_scrape gets
    \* ---- the feed, and what happened in the run (history of the run) ----
    feed_stable,    \* the feed has stalled: nothing new, no end marker
    observed,       \* union of the link sets read from the feed
    accumulated,    \* place_links before a quota truncation
    events,         \* set of things that happened in this run
    summary_writes, \* rows upsert_scrape_history wrote for this run
    \* ---- the service across runs ----
    runs,           \* number of requests run_scrape has finished
    summaries,      \* the run summaries written so far, oldest first
    \* ---- the connection pool and the worker threads using it ----
    pool_cache,     \* the lru_cache of get_pool: 0, or the cached pool
    pools,          \* the SimpleConnectionPool instances created so far
    closes,         \* number of close_pool calls so far
    threads,        \* per worker thread: where it is in db_connection
    \* ---- the browser operations of a run, one await at a time ----
    page_ops,       \* operations in flight, the next await, the link in work
    \* ---- upsert_entities calls running at the same time ----
    txns            \* per worker thread: the transaction of its call

uvars == <<u_records, u_page_size, u_calls, u_ret, u_before>>
tables == <<entities, history>>
request == <<query, max_places>>
scrape_vars == <<browser, place_links, last_height, scroll_attempts_no_new, todo, results>>
ghost_vars == <<feed_stable, observed, accumulated, events, summary_writes>>
pool_vars == <<pool_cache, pools, closes, threads>>
service_vars == <<runs, summaries, pool_vars, page_ops, txns>>
run_vars == <<pc, request, scrape_vars, rows_added, outcome, ghost_vars>>
vars == <<uvars, tables, pc, request, scrape_vars, rows_added, outcome, ghost_vars,
          service_vars>>

(***************************************************************************)
(* Python values.  A str is a sequence of one-character strings, so that   *)
(* int(), str.strip() and str.lower() work on its characters.              *)
(***************************************************************************)
NoneV == [t |-> "none"]
IntV(n) == [t |-> "int", v |-> n]
StrV(cs) == [t |-> "str", v |-> cs]
FloatV(whole, tenths) == [t |-> "float", v |-> whole, f |-> tenths]
\* float("inf")
InfV == [t |-> "float", inf |-> TRUE]
IsInf(x) == x.t = "float" /\ "inf" \in DOMAIN x
\* an exception that leaves the function instead of a value
OverflowError == [t |-> "raise", v |-> "OverflowError"]
\* int(value) raises an exception other than TypeError and ValueError
IntOverflows(value) == IsInf(value)
ListV(items) == [t |-> "list", v |-> items]

\* A dict is a function from its keys; {} is the function with no key.
EmptyDict == <<>>

\* dict.get(key): the value, or None when the key is missing
Get(d, key) == IF key \in DOMAIN d THEN d[key] ELSE NoneV

\* Python truthiness of a value (bool(x))
Truthy(x) ==
    CASE x.t = "none" -> FALSE
      [] x.t = "int" -> x.v # 0
      [] x.t = "float" -> IsInf(x) \/ x.v # 0 \/ x.f # 0
      [] x.t = "str" -> Len(x.v) > 0
      [] x.t = "list" -> Len(x.v) > 0

\* `a or b`
PyOr(a, b) == IF Truthy(a) THEN a ELSE b

Digits == <<"0", "1", "2", "3", "4", "5", "6", "7", "8", "9">>
IsDigit(c) == \E i \in 1..10 : Digits[i] = c
DigitVal(c) == (CHOOSE i \in 1..10 : Digits[i] = c) - 1
IsSpace(c) == c = " "

RECURSIVE LStrip(_)
LStrip(cs) == IF cs # <<>> /\ IsSpace(Head(cs)) THEN LStrip(Tail(cs)) ELSE cs

RECURSIVE RStrip(_)
RStrip(cs) ==
    IF cs # <<>> /\ IsSpace(cs[Len(cs)]) THEN RStrip(SubSeq(cs, 1, Len(cs) - 1)) ELSE cs

\* str.strip()
Strip(cs) == RStrip(LStrip(cs))

RECURSIVE DigitsValue(_)
DigitsValue(cs) ==
    IF cs = <<>> THEN 0 ELSE 10 * DigitsValue(SubSeq(cs, 1, Len(cs) - 1)) + DigitVal(cs[Len(cs)])

\* int(str): surrounding blanks and one sign are allowed, then digits only;
\* anything else raises ValueError (reported here as ok = FALSE).
ParseInt(cs) ==
    LET s == Strip(cs)
        signed == s # <<>> /\ Head(s) \in {"-", "+"}
        body == IF signed THEN Tail(s) ELSE s
        good == body # <<>> /\ \A i \in 1..Len(body) : IsDigit(body[i])
    IN  IF good
        THEN [ok |-> TRUE, v |-> IF signed /\ Head(s) = "-" THEN 0 - DigitsValue(body) ELSE DigitsValue(body)]
        ELSE [ok |-> FALSE, v |-> 0]

\* _coerce_int: int(value), None for None and for TypeError / ValueError;
\* int(float("inf")) raises OverflowError, which is not caught
CoerceInt(value) ==
    CASE value.t = "none" -> NoneV
      [] value.t = "int" -> value
      [] value.t = "float" -> IF IntOverflows(value) THEN OverflowError ELSE IntV(value.v)
      [] value.t = "str" -> IF ParseInt(value.v).ok THEN IntV(ParseInt(value.v).v) ELSE NoneV
      [] value.t = "list" -> NoneV

\* str(item) for the items of a category list
PyStr(item) == IF item.t = "str" THEN item.v ELSE <<"?">>

RECURSIVE CleanItems(_)
CleanItems(items) ==
    IF items = <<>> THEN <<>>
    ELSE IF Truthy(Head(items))
         THEN <<StrV(Strip(PyStr(Head(items))))>> \o CleanItems(Tail(items))
         ELSE CleanItems(Tail(items))

\* _clean_categories
CleanCategories(raw) ==
    IF ~Truthy(raw) THEN NoneV
    ELSE LET items == CleanItems(raw.v)
         IN  IF items = <<>> THEN NoneV ELSE ListV(items)

\* _to_row: the scraper payload in the column order of ENTITY_COLUMNS
ToRow(record) ==
    [name |-> Get(record, "name"),
     place_id |-> Get(record, "place_id"),
     address |-> Get(record, "address"),
     google_rating |-> CoerceInt(Get(record, "rating")),
     review_count |-> CoerceInt(Get(record, "reviews_count")),
     entity_categories |->
         CleanCategories(PyOr(Get(record, "categories"), Get(record, "entity_categories"))),
     website |-> Get(record, "website"),
     phone |-> Get(record, "phone"),
     google_link |-> Get(record, "link")]

\* `if record` of the comprehension in upsert_entities: a dict is kept unless empty
RecordKept(record) == DOMAIN record # {}

\* _to_row(record) raises instead of returning a row
ToRowRaises(record) ==
    \/ IntOverflows(Get(record, "rating"))
    \/ IntOverflows(Get(record, "reviews_count"))

\* the comprehension building `rows` raises at one of the kept records
RowsOfRaises(records) ==
    \E i \in 1..Len(records) : RecordKept(records[i]) /\ ToRowRaises(records[i])

RECURSIVE RowsOf(_)
\* rows = [_to_row(record) for record in records if record]
RowsOf(records) ==
    IF records = <<>> THEN <<>>
    ELSE IF RecordKept(Head(records))
         THEN <<ToRow(Head(records))>> \o RowsOf(Tail(records))
         ELSE RowsOf(Tail(records))

(***************************************************************************)
(* INSERT INTO entities ... ON CONFLICT (place_id) DO UPDATE SET ...       *)
(* One statement over the rows of one page.  place_id is UNIQUE and        *)
(* nullable: a NULL key never conflicts, so such a row is always inserted. *)
(* A second row with a key this statement already inserted or updated      *)
(* makes the statement fail ("cannot affect row a second time").           *)
(***************************************************************************)
ConflictIndex(tbl, key) ==
    IF key = NoneV \/ ~\E i \in 1..Len(tbl) : tbl[i].place_id = key THEN 0
    ELSE CHOOSE i \in 1..Len(tbl) : tbl[i].place_id = key

RECURSIVE UpsertStatement(_, _, _)
UpsertStatement(tbl, page, touched) ==
    IF page = <<>> THEN [ok |-> TRUE, table |-> tbl]
    ELSE LET row == Head(page)
             i == ConflictIndex(tbl, row.place_id)
         IN  IF i = 0
             THEN UpsertStatement(Append(tbl, row), Tail(page), touched \cup {Len(tbl) + 1})
             ELSE IF i \in touched
                  THEN [ok |-> FALSE, table |-> tbl]
                  ELSE UpsertStatement([tbl EXCEPT ![i] = row], Tail(page), touched \cup {i})

Min(a, b) == IF a < b THEN a ELSE b

RECURSIVE ExecuteValues(_, _, _)
\* execute_values: one statement per page of at most page_size rows
ExecuteValues(tbl, rows, page_size) ==
    IF rows = <<>> THEN [ok |-> TRUE, table |-> tbl]
    ELSE LET n == Min(page_size, Len(rows))
             r == UpsertStatement(tbl, SubSeq(rows, 1, n), {})
         IN  IF r.ok THEN ExecuteValues(r.table, SubSeq(rows, n + 1, Len(rows)), page_size)
             ELSE r

RECURSIVE ExecuteValuesPerPage(_, _, _)
\* execute_values with a commit after every page: a failing page leaves the
\* pages before it in the table
ExecuteValuesPerPage(tbl, rows, page_size) ==
    IF rows = <<>> THEN [ok |-> TRUE, table |-> tbl]
    ELSE LET n == Min(page_size, Len(rows))
             r == UpsertStatement(tbl, SubSeq(rows, 1, n), {})
         IN  IF r.ok THEN ExecuteValuesPerPage(r.table, SubSeq(rows, n + 1, Len(rows)), page_size)
             ELSE [ok |-> FALSE, table |-> tbl]

\* faulty variant of UpsertEntities: every page is committed on its own
UpsertEntitiesCommitPerPage(tbl, records, page_size, db_up) ==
    LET rows == RowsOf(records)
    IN  IF RowsOfRaises(records) THEN [raised |-> TRUE, count |-> 0, table |-> tbl]
        ELSE IF rows = <<>> THEN [raised |-> FALSE, count |-> 0, table |-> tbl]
        ELSE IF ~db_up THEN [raised |-> TRUE, count |-> 0, table |-> tbl]
        ELSE LET r == ExecuteValuesPerPage(tbl, rows, page_size)
             IN  [raised |-> ~r.ok, count |-> IF r.ok THEN Len(rows) ELSE 0,
                  table |-> r.table]

\* faulty variant of UpsertEntities: the rows inserted are counted
UpsertEntitiesCountsInserted(tbl, records, page_size, db_up) ==
    LET rows == RowsOf(records)
    IN  IF RowsOfRaises(records) THEN [raised |-> TRUE, count |-> 0, table |-> tbl]
        ELSE IF rows = <<>> THEN [raised |-> FALSE, count |-> 0, table |-> tbl]
        ELSE IF ~db_up THEN [raised |-> TRUE, count |-> 0, table |-> tbl]
        ELSE LET r == ExecuteValues(tbl, rows, page_size)
             IN  IF r.ok THEN [raised |-> FALSE, count |-> Len(r.table) - Len(tbl),
                               table |-> r.table]
                 ELSE [raised |-> TRUE, count |-> 0, table |-> tbl]

\* upsert_entities(records, page_size) against table tbl.  The statements run
\* in one transaction that is committed after the last page; an exception
\* leaves the `with` block before commit and putconn rolls the transaction back.
UpsertEntities(tbl, records, page_size, db_up) ==
    LET rows == RowsOf(records)
    IN  IF RowsOfRaises(records) THEN [raised |-> TRUE, count |-> 0, table |-> tbl]
        ELSE IF rows = <<>> THEN [raised |-> FALSE, count |-> 0, table |-> tbl]
        ELSE IF ~db_up THEN [raised |-> TRUE, count |-> 0, table |-> tbl]
        ELSE LET r == ExecuteValues(tbl, rows, page_size)
             IN  IF r.ok THEN [raised |-> FALSE, count |-> Len(rows), table |-> r.table]
                 ELSE [raised |-> TRUE, count |-> 0, table |-> tbl]

(***************************************************************************)
(* UpsertSpec: upsert_entities called repeatedly with one argument list.   *)
(***************************************************************************)
MaxRecords == 4
MaxPageSize == 2
MaxCalls == 2
\* page_size: int = 250
DefaultPageSize == 250

P1 == StrV(<<"p", "1">>)
P2 == StrV(<<"p", "2">>)
NameA == StrV(<<"A">>)
NameB == StrV(<<"B">>)

\* The payloads the calls draw from: keyed, keyless (key missing or None),
\* empty, and with ratings int() accepts or rejects.
RecordPool ==
    { [place_id |-> P1, rating |-> StrV(<<"4", ".", "5">>)],
      [place_id |-> P1, rating |-> StrV(<<"b", "a", "d">>)],
      [place_id |-> P1, name |-> NameB, rating |-> IntV(3)],
      [place_id |-> P2, name |-> NameA, rating |-> StrV(<<" ", "7">>)],
      [place_id |-> P2, name |-> NameB, rating |-> FloatV(4, 5)],
      [place_id |-> NoneV, name |-> NameA, rating |-> IntV(5)],
      [name |-> NameB, categories |-> ListV(<<StrV(<<" ", "x">>)>>)],
      EmptyDict }

RECURSIVE SeqsUpTo(_, _)
SeqsUpTo(S, n) ==
    IF n = 0 THEN {<<>>}
    ELSE LET shorter == SeqsUpTo(S, n - 1)
         IN  shorter \cup {Append(s, x) : s \in shorter, x \in S}

\* no run is in progress
RunIdle ==
    /\ pc = "idle"
    /\ query = <<>>
    /\ max_places = NoneV
    /\ browser = "none"
    /\ place_links = {}
    /\ last_height = 0
    /\ scroll_attempts_no_new = 0
    /\ todo = {}
    /\ results = <<>>
    /\ rows_added = 0
    /\ outcome = "none"
    /\ feed_stable = FALSE
    /\ observed = {}
    /\ accumulated = {}
    /\ events = {}
    /\ summary_writes = 0

\* the worker threads of the executor that are followed (max_workers=4)
NumThreads == 2
Threads == 1..NumThreads

\* a worker thread outside db_connection; `path` is how its last write ended
IdleThread == [pc |-> "idle", pool |-> 0, path |-> "none"]

\* a worker thread that is not inside upsert_entities
IdleTxn == [rows |-> <<>>, pos |-> 0, state |-> "idle", pending |-> <<>>]

\* no scroll cycle has run: nothing was read from the feed
NoCycle ==
    [read |-> [links |-> {}, height |-> 0, marker |-> FALSE], before |-> 0, stagnant |-> 0]

\* no browser operation has been started
IdlePage == [in_flight |-> <<>>, at |-> "none", current |-> NoneV, cycle |-> NoCycle]

\* the service has served no request yet: no pool is cached, no thread writes
ServiceIdle ==
    /\ page_ops = IdlePage
    /\ txns = [t \in Threads |-> IdleTxn]
    /\ runs = 0
    /\ summaries = <<>>
    /\ pool_cache = 0
    /\ pools = <<>>
    /\ closes = 0
    /\ threads = [t \in Threads |-> IdleThread]

NotCalled == [raised |-> FALSE, count |-> 0, db_up |-> TRUE]

UpsertInit ==
    /\ u_records \in SeqsUpTo(RecordPool, MaxRecords)
    /\ u_page_size \in (1..MaxPageSize) \cup {DefaultPageSize}
    /\ u_calls = 0
    /\ u_ret = NotCalled
    /\ u_before = <<>>
    /\ entities = <<>>
    /\ history = <<>>
    /\ RunIdle
    /\ ServiceIdle

\* one whole call upsert_entities(u_records, u_page_size)
CallUpsertEntities ==
    /\ u_calls < MaxCalls
    /\ \E db_up \in BOOLEAN :
         LET r == UpsertEntities(entities, u_records, u_page_size, db_up)
         IN  /\ entities' = r.table
             /\ u_ret' = [raised |-> r.raised, count |-> r.count, db_up |-> db_up]
    /\ u_before' = entities
    /\ u_calls' = u_calls + 1
    /\ UNCHANGED <<u_records, u_page_size, history>>
    /\ UNCHANGED <<pc, request, scrape_vars, rows_added, outcome, ghost_vars,
                   service_vars>>

UpsertNext == CallUpsertEntities

UpsertSpec == UpsertInit /\ [][UpsertNext]_vars

(***************************************************************************)
(* Claims about upsert_entities (checked under UpsertSpec)                 *)
(***************************************************************************)
HasKey(record) == Get(record, "place_id") # NoneV
KeptWithKey(record) == RecordKept(record) /\ HasKey(record)
RowsWithKey(tbl, key) == {i \in 1..Len(tbl) : tbl[i].place_id = key}
RecordsWithKey(records, key) ==
    {i \in 1..Len(records) : RecordKept(records[i]) /\ Get(records[i], "place_id") = key}
Keys == {P1, P2}
Max(S) == CHOOSE x \in S : \A y \in S : y <= x

\* C3: after a successful call no row with a NULL place_id has been written,
\* and the returned count is the number of records that carry a key.
C3_KeylessRecordNeverPersisted ==
    (u_calls >= 1 /\ ~u_ret.raised) =>
        /\ RowsWithKey(entities, NoneV) = {}
        /\ u_ret.count = Len(SelectSeq(u_records, KeptWithKey))

\* C4: a second successful call with the same records leaves the table as
\* the first successful call left it (same rows, same contents).
C4_UpsertTwiceSameAsOnce ==
    [][(u_calls = 1 /\ ~u_ret.raised /\ u_calls' = 2 /\ ~u_ret'.raised)
          => entities' = entities]_vars

\* C5: whenever the input holds two or more records with one place_id and the
\* database is up, the call succeeds and exactly one row exists for that
\* place_id, equal to the row of the last such record.
C5_LastWriteWinsInOneCall ==
    \A key \in Keys :
        (u_calls >= 1 /\ u_ret.db_up /\ Cardinality(RecordsWithKey(u_records, key)) >= 2) =>
            /\ ~u_ret.raised
            /\ Cardinality(RowsWithKey(entities, key)) = 1
            /\ \A i \in RowsWithKey(entities, key) :
                   entities[i] = ToRow(u_records[Max(RecordsWithKey(u_records, key))])

\* C6: the records {p1, rating "4.5"} and {p1, rating "bad"} in one call: the
\* call does not fail and the row of p1 has google_rating NULL.
ScenarioRecords ==
    << [place_id |-> P1, rating |-> StrV(<<"4", ".", "5">>)],
       [place_id |-> P1, rating |-> StrV(<<"b", "a", "d">>)] >>

C6_UncoercibleRatingStoredAbsent ==
    (u_calls >= 1 /\ u_ret.db_up /\ u_records = ScenarioRecords) =>
        /\ ~u_ret.raised
        /\ Cardinality(RowsWithKey(entities, P1)) = 1
        /\ \A i \in RowsWithKey(entities, P1) : entities[i].google_rating = NoneV

\* the rows of the first page of the call
FirstPage == SubSeq(RowsOf(u_records), 1, Min(u_page_size, Len(RowsOf(u_records))))

\* C14: when the database rejected a later page of a call, the table holds
\* what the pages before it wrote.
C14_EarlierBatchesStayCommitted ==
    (u_calls >= 1 /\ u_ret.raised /\ u_ret.db_up) =>
        entities = ExecuteValuesPerPage(u_before, RowsOf(u_records), u_page_size).table

\* C14, amended: a call that raised has written nothing, whichever page was
\* rejected: the pages run in one transaction that is committed after the last
\* one, so the table is as it was before the call; what earlier calls
\* committed stays.
C14_FailedCallWritesNothing ==
    (u_calls >= 1 /\ u_ret.raised) =>
        /\ entities = u_before
        /\ u_ret.count = 0

\* the first page of the first call was accepted on its own (two rows), the
\* second page was rejected, and the table is empty
C14_Witness ==
    /\ u_calls = 1
    /\ u_ret.raised
    /\ u_ret.db_up
    /\ Len(RowsOf(u_records)) > u_page_size
    /\ Len(FirstPage) = 2
    /\ UpsertStatement(<<>>, FirstPage, {}).ok
    /\ entities = <<>>

\* the records of the list that the comprehension keeps (`if record`)
KeptRecords(records) == {i \in 1..Len(records) : RecordKept(records[i])}

\* C22: a call of upsert_entities that returns, returns the number of records
\* kept by `if record`, whether its rows were inserted, updated or left as
\* they were; with no record kept it returns 0 and leaves the table alone,
\* also when the database cannot be reached.
C22_ReturnsAttemptedRows ==
    u_calls >= 1 =>
        /\ ~u_ret.raised => u_ret.count = Cardinality(KeptRecords(u_records))
        /\ KeptRecords(u_records) = {} =>
               /\ ~u_ret.raised
               /\ u_ret.count = 0
               /\ entities = u_before

\* a second call whose two rows are both no-op updates still returns 2
C22_Witness ==
    /\ u_calls = 2
    /\ ~u_ret.raised
    /\ u_ret.count = 2
    /\ Len(u_records) = 3
    /\ Len(u_before) = 2
    /\ entities = u_before

(***************************************************************************)
(* RowSpec: upsert_entities called with records whose category lists and   *)
(* numeric fields take the shapes _clean_categories and _coerce_int have   *)
(* to deal with.                                                           *)
(***************************************************************************)
MaxRowRecords == 2

Blank == StrV(<<" ", " ">>)
\* values of `categories` / `entity_categories`
CategoryValues ==
    { ListV(<<>>),
      ListV(<<StrV(<<" ", "x", " ">>)>>),
      ListV(<<StrV(<<>>)>>),
      ListV(<<NoneV, IntV(0)>>),
      ListV(<<StrV(<<"a">>), StrV(<<>>), StrV(<<"b", " ">>)>>),
      ListV(<<Blank>>),
      ListV(<<StrV(<<"a">>), Blank>>) }
\* values of `rating` / `reviews_count`
NumericValues ==
    { IntV(3), FloatV(4, 5), StrV(<<"4", ".", "5">>), StrV(<<" ", "7">>),
      StrV(<<"b", "a", "d">>), StrV(<<>>), ListV(<<>>), InfV }

\* payloads with distinct keys: the i-th record of a call has key p<i>
RowRecords(i) ==
    LET key == StrV(<<"p", Digits[i + 1]>>)
    IN  {[place_id |-> key, name |-> NameA]}
        \cup {[place_id |-> key, categories |-> c] : c \in CategoryValues}
        \cup {[place_id |-> key, categories |-> ListV(<<>>), entity_categories |-> c] :
                  c \in CategoryValues}
        \cup {[place_id |-> key, rating |-> v] : v \in NumericValues}
        \cup {[place_id |-> key, rating |-> IntV(3), reviews_count |-> v] :
                  v \in NumericValues}

RECURSIVE RowLists(_)
\* the lists of n records
RowLists(n) ==
    IF n = 0 THEN {<<>>}
    ELSE {Append(s, x) : s \in RowLists(n - 1), x \in RowRecords(n)}

RowInit ==
    /\ u_records \in UNION {RowLists(n) : n \in 1..MaxRowRecords}
    /\ u_page_size = DefaultPageSize
    /\ u_calls = 0
    /\ u_ret = NotCalled
    /\ u_before = <<>>
    /\ entities = <<>>
    /\ history = <<>>
    /\ RunIdle
    /\ ServiceIdle

RowNext == CallUpsertEntities

RowSpec == RowInit /\ [][RowNext]_vars

\* a stored category value is absent or a non-empty list of trimmed,
\* non-empty strings
CleanStored(value) ==
    \/ value = NoneV
    \/ /\ value.t = "list"
       /\ value.v # <<>>
       /\ \A i \in 1..Len(value.v) :
              /\ value.v[i].t = "str"
              /\ value.v[i].v # <<>>
              /\ Strip(value.v[i].v) = value.v[i].v

\* C27: every row of the table has entity_categories absent or a non-empty
\* list of trimmed, non-empty strings.
C27_CategoriesTrimmedNonEmpty ==
    \A i \in 1..Len(entities) : CleanStored(entities[i].entity_categories)

\* the row written for the record with place_id key
RowOfKey(key) == entities[CHOOSE i \in 1..Len(entities) : entities[i].place_id = key]

\* C28: with the database up, a call with distinct keys does not raise
\* whatever rating and reviews_count are; every row has an integer or nothing
\* in both columns, and every record is stored as it is when passed alone.
C28_CoercionNeverFailsWrite ==
    (u_calls >= 1 /\ u_ret.db_up) =>
        /\ ~u_ret.raised
        /\ Len(entities) = Len(u_records)
        /\ \A i \in 1..Len(u_records) :
               LET row == RowOfKey(u_records[i].place_id)
               IN  /\ row.google_rating.t \in {"int", "none"}
                   /\ row.review_count.t \in {"int", "none"}
                   /\ row = UpsertEntities(<<>>, <<u_records[i]>>, u_page_size, TRUE).table[1]

(***************************************************************************)
(* upsert_scrape_history                                                   *)
(***************************************************************************)
RECURSIVE NatToStr(_)
NatToStr(n) == IF n < 10 THEN <<Digits[n + 1]>> ELSE NatToStr(n \div 10) \o <<Digits[(n % 10) + 1]>>

\* str(x)
StrOf(x) ==
    CASE x.t = "str" -> x.v
      [] x.t = "none" -> <<"N", "o", "n", "e">>
      [] x.t = "int" -> IF x.v < 0 THEN <<"-">> \o NatToStr(0 - x.v) ELSE NatToStr(x.v)
      [] x.t = "float" -> NatToStr(x.v) \o <<".">> \o NatToStr(x.f)
      [] x.t = "list" -> <<"[", "]">>

\* str(record.get("source", ""))
SourceOf(record) == IF "source" \in DOMAIN record THEN StrOf(record["source"]) ELSE <<>>

RECURSIVE DedupeBySource(_, _)
\* the dict `seen`: one entry per source in the order the sources first
\* appeared, holding the last record of that source
DedupeBySource(records, seen) ==
    IF records = <<>> THEN seen
    ELSE LET record == Head(records)
             source == SourceOf(record)
         IN  IF RecordKept(record) /\ source # <<>>
             THEN IF \E i \in 1..Len(seen) : SourceOf(seen[i]) = source
                  THEN DedupeBySource(Tail(records),
                           [i \in 1..Len(seen) |->
                               IF SourceOf(seen[i]) = source THEN record ELSE seen[i]])
                  ELSE DedupeBySource(Tail(records), Append(seen, record))
             ELSE DedupeBySource(Tail(records), seen)

\* _to_row of the scrape_history repository
HistoryToRow(record) ==
    [source |-> StrV(SourceOf(record)),
     search_key |-> Get(record, "search_key"),
     location_key |-> Get(record, "location_key"),
     results_scraped |-> CoerceInt(Get(record, "results_scraped"))]

\* faulty variant of HistoryStatement: a plain INSERT, no ON CONFLICT clause and
\* no unique key
HistoryStatementInsertOnly(tbl, page, touched) == [ok |-> TRUE, table |-> tbl \o page]

\* INSERT INTO scrape_history ... ON CONFLICT (source) DO UPDATE SET ...
RECURSIVE HistoryStatement(_, _, _)
HistoryStatement(tbl, page, touched) ==
    IF page = <<>> THEN [ok |-> TRUE, table |-> tbl]
    ELSE LET row == Head(page)
             hit == {i \in 1..Len(tbl) : tbl[i].source = row.source}
         IN  IF hit = {}
             THEN HistoryStatement(Append(tbl, row), Tail(page), touched \cup {Len(tbl) + 1})
             ELSE IF hit \cap touched # {}
                  THEN [ok |-> FALSE, table |-> tbl]
                  ELSE HistoryStatement(
                           [i \in 1..Len(tbl) |-> IF i \in hit THEN row ELSE tbl[i]],
                           Tail(page), touched \cup hit)

RECURSIVE HistoryExecuteValues(_, _, _)
HistoryExecuteValues(tbl, rows, page_size) ==
    IF rows = <<>> THEN [ok |-> TRUE, table |-> tbl]
    ELSE LET n == Min(page_size, Len(rows))
             r == HistoryStatement(tbl, SubSeq(rows, 1, n), {})
         IN  IF r.ok
             THEN HistoryExecuteValues(r.table, SubSeq(rows, n + 1, Len(rows)), page_size)
             ELSE r

\* the kept records with a source, none of them dropped as a duplicate
KeptWithSource(record) == RecordKept(record) /\ SourceOf(record) # <<>>

\* faulty variant of UpsertScrapeHistory: the records are not deduplicated
UpsertScrapeHistoryNoDedupe(tbl, records, page_size, db_up) ==
    LET seen == SelectSeq(records, KeptWithSource)
        rows == [i \in 1..Len(seen) |-> HistoryToRow(seen[i])]
    IN  IF seen = <<>> THEN [raised |-> FALSE, count |-> 0, table |-> tbl]
        ELSE IF ~db_up THEN [raised |-> TRUE, count |-> 0, table |-> tbl]
        ELSE LET r == HistoryExecuteValues(tbl, rows, page_size)
             IN  IF r.ok THEN [raised |-> FALSE, count |-> Len(rows), table |-> r.table]
                 ELSE [raised |-> TRUE, count |-> 0, table |-> tbl]

\* upsert_scrape_history(records, page_size) against table tbl
UpsertScrapeHistory(tbl, records, page_size, db_up) ==
    LET seen == DedupeBySource(records, <<>>)
        rows == [i \in 1..Len(seen) |-> HistoryToRow(seen[i])]
    IN  IF seen = <<>> THEN [raised |-> FALSE, count |-> 0, table |-> tbl]
        ELSE IF ~db_up THEN [raised |-> TRUE, count |-> 0, table |-> tbl]
        ELSE LET r == HistoryExecuteValues(tbl, rows, page_size)
             IN  IF r.ok THEN [raised |-> FALSE, count |-> Len(rows), table |-> r.table]
                 ELSE [raised |-> TRUE, count |-> 0, table |-> tbl]

\* page_size: int = 100
HistoryPageSize == 100

(***************************************************************************)
(* HistorySpec: upsert_scrape_history called repeatedly with one list.     *)
(***************************************************************************)
MaxHistoryRecords == 3

S1 == StrV(<<"s", "1">>)
S2 == StrV(<<"s", "2">>)

\* The records the calls draw from: sources that repeat, a source that is an
\* int and the str it prints as, a source of None, an empty and a missing
\* source, an empty record, and counts int() accepts or rejects.
HistoryPool ==
    { [source |-> S1, search_key |-> NameA, results_scraped |-> IntV(1)],
      [source |-> S1, search_key |-> NameB, results_scraped |-> StrV(<<" ", "2">>)],
      [source |-> S2, results_scraped |-> StrV(<<"b", "a", "d">>)],
      [source |-> IntV(7), results_scraped |-> IntV(3)],
      [source |-> StrV(<<"7">>), results_scraped |-> IntV(4)],
      [source |-> NoneV, results_scraped |-> IntV(5)],
      [source |-> StrV(<<>>), results_scraped |-> IntV(6)],
      [search_key |-> NameA, results_scraped |-> IntV(7)],
      EmptyDict }

HistoryInit ==
    /\ u_records \in SeqsUpTo(HistoryPool, MaxHistoryRecords)
    /\ u_page_size \in (1..MaxPageSize) \cup {HistoryPageSize}
    /\ u_calls = 0
    /\ u_ret = NotCalled
    /\ u_before = <<>>
    /\ entities = <<>>
    /\ history = <<>>
    /\ RunIdle
    /\ ServiceIdle

\* one whole call upsert_scrape_history(u_records, u_page_size)
CallUpsertScrapeHistory ==
    /\ u_calls < MaxCalls
    /\ \E db_up \in BOOLEAN :
         LET r == UpsertScrapeHistory(history, u_records, u_page_size, db_up)
         IN  /\ history' = r.table
             /\ u_ret' = [raised |-> r.raised, count |-> r.count, db_up |-> db_up]
    /\ u_before' = history
    /\ u_calls' = u_calls + 1
    /\ UNCHANGED <<u_records, u_page_size, entities>>
    /\ UNCHANGED <<pc, request, scrape_vars, rows_added, outcome, ghost_vars,
                   service_vars>>

HistoryNext == CallUpsertScrapeHistory

HistorySpec == HistoryInit /\ [][HistoryNext]_vars

\* the sources of a list of records, as upsert_scrape_history reads them
\* (str(source) of the kept records, the empty string left out)
SourcesIn(records) ==
    {SourceOf(records[i]) : i \in {j \in 1..Len(records) : RecordKept(records[j])}} \ {<<>>}
RecordsWithSource(records, source) ==
    {i \in 1..Len(records) : RecordKept(records[i]) /\ SourceOf(records[i]) = source}
RowsWithSource(tbl, source) == {i \in 1..Len(tbl) : tbl[i].source = StrV(source)}

\* C12: for every input list and every page size, a call with the database
\* up does not fail, returns the number of distinct non-empty sources
\* (compared as the code reads them, by str(source)), and the table holds
\* exactly one row per such source, equal to the row of the last record of
\* that source in input order.
C12_HistoryDedupedBySource ==
    (u_calls >= 1 /\ u_ret.db_up) =>
        /\ ~u_ret.raised
        /\ u_ret.count = Cardinality(SourcesIn(u_records))
        /\ Len(history) = Cardinality(SourcesIn(u_records))
        /\ \A source \in SourcesIn(u_records) :
               /\ Cardinality(RowsWithSource(history, source)) = 1
               /\ \A i \in RowsWithSource(history, source) :
                      history[i] =
                          HistoryToRow(u_records[Max(RecordsWithSource(u_records, source))])

\* three records of which two share a source, sent in one statement: 2 is
\* returned and the shared source carries the values of the later record
C12_Witness ==
    /\ u_calls = 1
    /\ u_page_size = HistoryPageSize
    /\ Len(u_records) = 3
    /\ SourceOf(u_records[1]) = S1.v
    /\ SourceOf(u_records[2]) = S2.v
    /\ SourceOf(u_records[3]) = S1.v
    /\ u_records[1] # u_records[3]
    /\ u_ret = [raised |-> FALSE, count |-> 2, db_up |-> TRUE]
    /\ Len(history) = 2
    /\ history[1] = HistoryToRow(u_records[3])

\* a record that carries a source other than None and the empty string
HasSource(record) ==
    /\ "source" \in DOMAIN record
    /\ record["source"] # NoneV
    /\ record["source"] # StrV(<<>>)

\* C38: with the database up, a call returns what it returns for the list
\* without the records whose source is missing, None or empty, and the table
\* holds the rows that shorter list alone leaves there.
C38_RecordsWithoutSourceDropped ==
    (u_calls >= 1 /\ u_ret.db_up) =>
        LET r == UpsertScrapeHistory(<<>>, SelectSeq(u_records, HasSource),
                                     u_page_size, TRUE)
        IN  /\ u_ret.count = r.count
            /\ history = r.table

(***************************************************************************)
(* run_scrape: the source id of a query                                    *)
(***************************************************************************)
UpperCase == <<"A", "B", "C", "D", "E", "F", "G", "H", "I", "J", "K", "L", "M",
               "N", "O", "P", "Q", "R", "S", "T", "U", "V", "W", "X", "Y", "Z">>
LowerCase == <<"a", "b", "c", "d", "e", "f", "g", "h", "i", "j", "k", "l", "m",
               "n", "o", "p", "q", "r", "s", "t", "u", "v", "w", "x", "y", "z">>
LowerChar(c) ==
    IF \E i \in 1..26 : UpperCase[i] = c
    THEN LowerCase[CHOOSE i \in 1..26 : UpperCase[i] = c]
    ELSE c
\* faulty variant of Lower: the letter case is kept
LowerKeepsCase(cs) == cs
\* str.lower()
Lower(cs) == [i \in 1..Len(cs) |-> LowerChar(cs[i])]
\* str.replace(' ', '_')
SpacesToUnderscores(cs) == [i \in 1..Len(cs) |-> IF cs[i] = " " THEN "_" ELSE cs[i]]
IsNotComma(c) == c # ","
\* str.replace(',', '')
DropCommas(cs) == SelectSeq(cs, IsNotComma)
\* the slice [:50]
SourceIdMaxLen == 50
\* source_id = f"gmaps_{query.lower().replace(' ', '_').replace(',', '')[:50]}"
SourceId(q) ==
    LET norm == DropCommas(SpacesToUnderscores(Lower(q)))
    IN  <<"g", "m", "a", "p", "s", "_">> \o SubSeq(norm, 1, Min(SourceIdMaxLen, Len(norm)))

\* faulty variant of HistoryRecord: the discovered links are counted, not the records
HistoryRecordOfLinks(q, n) ==
    [source |-> StrV(SourceId(q)), search_key |-> StrV(q),
     location_key |-> NoneV, results_scraped |-> IntV(Cardinality(place_links))]

\* ScrapeHistoryContract(...).to_repository_dict()
HistoryRecord(q, n) ==
    [source |-> StrV(SourceId(q)), search_key |-> StrV(q),
     location_key |-> NoneV, results_scraped |-> IntV(n)]


(***************************************************************************)
(* scrape_google_maps and run_scrape                                       *)
(***************************************************************************)
NumLinks == 2
MaxHeight == 2
MaxQuota == 2
\* MAX_SCROLL_ATTEMPTS_WITHOUT_NEW_LINKS
MAX_SCROLL_ATTEMPTS_WITHOUT_NEW_LINKS == 5

LinkNames == <<"a", "b", "c", "d", "e">>
\* the place links the feed can show
Links == {StrV(<<LinkNames[i]>>) : i \in 1..NumLinks}
\* page.url of a single-place page
PageUrl == StrV(<<"u">>)

Queries == {<<"B", "a", "r">>, <<"b", "a", "r", ",", " ", "x">>}
\* max_places: Optional[int], no lower bound
QuotaValues == {NoneV} \cup {IntV(k) : k \in (0 - 1)..MaxQuota}

\* what extractor.extract_place_data can return besides None
ExtractPool ==
    { [place_id |-> P1, name |-> NameA, rating |-> FloatV(4, 5)],
      [place_id |-> P2, name |-> NameB],
      [name |-> NameA] }

ScrapePcs == {"launch", "goto", "consent", "wait_feed", "check_feed", "scroll", "extract"}

Init ==
    /\ u_records = <<>>
    /\ u_page_size = DefaultPageSize
    /\ u_calls = 0
    /\ u_ret = NotCalled
    /\ u_before = <<>>
    /\ entities = <<>>
    /\ history = <<>>
    /\ pc = "launch"
    /\ query \in Queries
    /\ max_places \in QuotaValues
    /\ browser = "none"
    /\ place_links = {}
    /\ last_height = 0
    /\ scroll_attempts_no_new = 0
    /\ todo = {}
    /\ results = <<>>
    /\ rows_added = 0
    /\ outcome = "none"
    /\ feed_stable = FALSE
    /\ observed = {}
    /\ accumulated = {}
    /\ events = {}
    /\ summary_writes = 0
    /\ ServiceIdle

\* faulty variant of ScrapeRaisesWith: the exception is re-raised to run_scrape
ScrapeReraisesWith(b) ==
    /\ pc' = "done"
    /\ browser' = IF b = "none" THEN "none" ELSE "closed"
    /\ events' = events \cup {"run_failure"}
    /\ outcome' = "http500"

\* faulty variant of AfterFinally: the browser is left as it is
LeftOpen(b) == b

\* the `finally` block: `if browser and browser.is_connected(): await
\* browser.close()`, for a browser in state b
AfterFinally(b) == IF b = "none" THEN "none" ELSE "closed"

\* the outer `except` / `finally` of scrape_google_maps: the exception is
\* printed, the browser (in state b when the exception is raised) is closed if
\* there is one, and `results` is returned
ScrapeRaisesWith(b) ==
    /\ pc' = "returned"
    /\ browser' = AfterFinally(b)
    /\ events' = events \cup {"run_failure"}
    /\ outcome' = outcome

\* an exception raised with the browser as it is now
ScrapeRaises == ScrapeRaisesWith(browser)

\* launch, new_context, new_page
Launch ==
    /\ pc = "launch"
    /\ \/ /\ pc' = "goto"
          /\ browser' = "open"
          /\ UNCHANGED <<events, outcome>>
       \/ \* chromium.launch raises: there is no browser yet
          ScrapeRaises
       \/ \* new_context / new_page raise, or new_page returns None
          ScrapeRaisesWith("open")
    /\ UNCHANGED <<uvars, service_vars, tables, request, place_links, last_height,
                   scroll_attempts_no_new, todo, results, rows_added,
                   feed_stable, observed, accumulated, summary_writes>>

\* page.goto(search_url) and the 2 s sleep
Goto ==
    /\ pc = "goto"
    /\ \/ pc' = "consent" /\ UNCHANGED <<browser, events, outcome>>
       \/ ScrapeRaises
    /\ UNCHANGED <<uvars, service_vars, tables, request, place_links, last_height,
                   scroll_attempts_no_new, todo, results, rows_added,
                   feed_stable, observed, accumulated, summary_writes>>

\* the consent form: a timeout or any other error here is printed and ignored
Consent ==
    /\ pc = "consent"
    /\ pc' = "wait_feed"
    /\ UNCHANGED <<uvars, service_vars, tables, request, scrape_vars, rows_added, outcome, ghost_vars>>

\* faulty variant of FeedNotFound: the early `return []` is missing
FeedNotFoundNoReturn ==
    /\ pc' = "check_feed"
    /\ browser' = "closed"
    /\ events' = events \cup {"feed_not_found"}
    /\ outcome' = outcome

\* the feed is not there and the page is no single-place page:
\* print the error, browser.close(), return []
FeedNotFound ==
    /\ pc' = "returned"
    /\ browser' = "closed"
    /\ events' = events \cup {"feed_not_found"}
    /\ outcome' = outcome

\* wait_for_selector('[role="feed"]', state="visible", timeout=25000)
WaitFeed ==
    /\ pc = "wait_feed"
    /\ \/ \* the feed became visible
          /\ pc' = "check_feed"
          /\ UNCHANGED <<browser, place_links, events, outcome>>
       \/ \* timeout on a single-place page
          /\ pc' = "check_feed"
          /\ place_links' = place_links \cup {PageUrl}
          /\ events' = events \cup {"single_place"}
          /\ UNCHANGED <<browser, outcome>>
       \/ \* timeout elsewhere
          FeedNotFound /\ UNCHANGED place_links
       \/ \* any other error
          ScrapeRaises /\ UNCHANGED place_links
    /\ UNCHANGED <<uvars, service_vars, tables, request, last_height, scroll_attempts_no_new,
                   todo, results, rows_added, feed_stable, observed, accumulated,
                   summary_writes>>

\* `if await page.locator(feed_selector).count() > 0` and the first scrollHeight
CheckFeed ==
    /\ pc = "check_feed"
    /\ \/ \E h \in 1..MaxHeight :
            /\ pc' = "scroll"
            /\ last_height' = h
            /\ UNCHANGED <<browser, todo, events, outcome>>
       \/ /\ pc' = "extract"
          /\ todo' = place_links
          /\ UNCHANGED <<browser, last_height, events, outcome>>
       \/ ScrapeRaises /\ UNCHANGED <<last_height, todo>>
    /\ accumulated' = place_links
    /\ UNCHANGED <<uvars, service_vars, tables, request, place_links, scroll_attempts_no_new,
                   results, rows_added, feed_stable, observed, summary_writes>>

\* len(list(place_links)[:k]) for a list of n elements
SliceLen(n, k) == IF k >= 0 THEN Min(k, n) ELSE IF n + k > 0 THEN n + k ELSE 0

\* `max_places is not None and len(place_links) >= max_places`
QuotaReached(links) == max_places # NoneV /\ Cardinality(links) >= max_places.v

\* faulty variant of StagnationLimitReached: the loop gives up one cycle early
StagnationLimitReachedEarly(n) == n + 1 >= MAX_SCROLL_ATTEMPTS_WITHOUT_NEW_LINKS

\* `scroll_attempts_no_new >= MAX_SCROLL_ATTEMPTS_WITHOUT_NEW_LINKS`
StagnationLimitReached(n) == n >= MAX_SCROLL_ATTEMPTS_WITHOUT_NEW_LINKS

\* faulty variant of Incremented: a stagnant cycle counts twice
IncrementedTwice(n) == n + 2

\* `scroll_attempts_no_new += 1`
Incremented(n) == n + 1

\* what a cycle can read from the feed: the links, the height and whether the
\* end-of-list marker is there.  A feed that has stalled shows nothing new:
\* no new link, the height measured last, no marker.
FeedReads ==
    IF feed_stable
    THEN {[links |-> ls, height |-> last_height, marker |-> FALSE] :
              ls \in SUBSET (place_links \cap Links)}
    ELSE {[links |-> ls, height |-> h, marker |-> m] :
              ls \in SUBSET Links, h \in 1..MaxHeight, m \in BOOLEAN}

\* faulty variant of NewLinksFound: links seen for the first time go unnoticed
NewLinksIgnored(current_links) == FALSE

\* new_links_found = len(current_links - place_links) > 0
NewLinksFound(current_links) == current_links \ place_links # {}

\* faulty variant of EndMarkerPresent: the marker is never found
EndMarkerMissed(read) == FALSE

\* `await page.locator(end_marker_xpath).count() > 0`
EndMarkerPresent(read) == read.marker

\* faulty variant of Updated: the links of this read replace the set
ReplacedBy(current_links) == current_links

\* place_links.update(current_links)
Updated(current_links) == place_links \cup current_links

\* one pass through the body of `while True`, given what it reads
ScrollCycleBody(read) ==
    /\ pc = "scroll"
    /\   LET current_links == read.links
             new_height == read.height
             end_marker == EndMarkerPresent(read)
             new_links_found == NewLinksFound(current_links)
             all_links == Updated(current_links)
         IN  /\ observed' = observed \cup current_links
             /\ accumulated' = all_links
             /\ IF QuotaReached(all_links)
                THEN \* place_links = set(list(place_links)[:max_places]); break
                     /\ \E kept \in SUBSET all_links :
                          /\ Cardinality(kept) = SliceLen(Cardinality(all_links), max_places.v)
                          /\ place_links' = kept
                          /\ todo' = kept
                     /\ pc' = "extract"
                     /\ events' = events \cup {"quota"}
                     /\ UNCHANGED <<last_height, scroll_attempts_no_new>>
                ELSE /\ place_links' = all_links
                     /\ IF new_height = last_height
                        THEN IF end_marker
                             THEN /\ pc' = "extract"
                                  /\ todo' = all_links
                                  /\ events' = events \cup {"end_marker"}
                                  /\ UNCHANGED <<last_height, scroll_attempts_no_new>>
                             ELSE IF ~new_links_found
                                  THEN /\ scroll_attempts_no_new' = Incremented(scroll_attempts_no_new)
                                       /\ IF StagnationLimitReached(scroll_attempts_no_new')
                                          THEN /\ pc' = "extract"
                                               /\ todo' = all_links
                                               /\ events' = events \cup {"stagnation"}
                                          ELSE UNCHANGED <<pc, todo, events>>
                                       /\ UNCHANGED last_height
                                  ELSE /\ scroll_attempts_no_new' = 0
                                       /\ UNCHANGED <<pc, todo, events, last_height>>
                        ELSE /\ last_height' = new_height
                             /\ scroll_attempts_no_new' = 0
                             /\ UNCHANGED <<pc, todo, events>>
    /\ UNCHANGED <<uvars, runs, summaries, pool_vars, txns, tables, request, browser,
                   results, rows_added, outcome, feed_stable, summary_writes>>

\* one pass through the body of `while True`
ScrollCycle ==
    \E read \in FeedReads : ScrollCycleBody(read) /\ UNCHANGED page_ops

\* an evaluate / evaluate_all / count call of the loop raises
ScrollRaises ==
    /\ pc = "scroll"
    /\ ScrapeRaises
    /\ UNCHANGED <<uvars, service_vars, tables, request, place_links, last_height,
                   scroll_attempts_no_new, todo, results, rows_added,
                   feed_stable, observed, accumulated, summary_writes>>

\* the feed stalls: from now on no new link, no new height, no marker
FeedSettles ==
    /\ pc = "scroll"
    /\ ~feed_stable
    /\ feed_stable' = TRUE
    /\ UNCHANGED <<uvars, service_vars, tables, pc, request, scrape_vars, rows_added, outcome,
                   observed, accumulated, events, summary_writes>>

\* faulty variant of WithLink: the record is appended as the extractor gave it
WithoutLink(place_data, link) == place_data

\* place_data['link'] = link
WithLink(place_data, link) ==
    [key \in DOMAIN place_data \cup {"link"} |-> IF key = "link" THEN link ELSE place_data[key]]

\* faulty variant of ItemSkipped: the failure of an item leaves the loop
ItemFailureRaises ==
    /\ results' = results
    /\ ScrapeRaises

\* goto / content time out (`except PlaywrightTimeoutError`) or raise
\* (`except Exception`), or the extractor returns None (`else` of
\* `if place_data`): a line is printed and the loop goes on
ItemSkipped ==
    /\ results' = results
    /\ UNCHANGED <<pc, browser, events, outcome>>

\* faulty variant of AfterVisit: the link stays on the list and is visited again
VisitedAgain(link) == todo

\* `for link in place_links` moves on to the next link, whatever happened to
\* this one
AfterVisit(link) == todo \ {link}

\* one iteration of `for link in place_links`
ExtractItem ==
    /\ pc = "extract"
    /\ \E link \in todo :
         /\ todo' = AfterVisit(link)
         /\ \/ \E place_data \in ExtractPool :
                 /\ results' = Append(results, WithLink(place_data, link))
                 /\ UNCHANGED <<pc, browser, events, outcome>>
            \/ ItemSkipped
    /\ UNCHANGED <<uvars, service_vars, tables, request, place_links, last_height,
                   scroll_attempts_no_new, rows_added, feed_stable, observed,
                   accumulated, summary_writes>>

\* faulty variant of ExtractionDone: the loop is left with links unvisited
ExtractionDoneEarly == TRUE

\* `for link in place_links` has gone through every link
ExtractionDone == todo = {}

\* after the loop: browser.close() and `return results`
CloseAndReturn ==
    /\ pc = "extract"
    /\ ExtractionDone
    /\ \/ /\ pc' = "returned"
          /\ browser' = "closed"
          /\ UNCHANGED <<events, outcome>>
       \/ \* browser.close() raises
          ScrapeRaises
    /\ UNCHANGED <<uvars, service_vars, tables, request, place_links, last_height,
                   scroll_attempts_no_new, todo, results, rows_added,
                   feed_stable, observed, accumulated, summary_writes>>

\* the steps of scrape_google_maps other than an exception in the scroll loop
ScrapeFlow ==
    \/ Launch
    \/ Goto
    \/ Consent
    \/ WaitFeed
    \/ CheckFeed
    \/ ScrollCycle
    \/ ExtractItem
    \/ CloseAndReturn

\* the steps of scrape_google_maps
ScrapeStep == ScrapeFlow \/ ScrollRaises

\* faulty variant of DeadlinePcs: the timeout also covers the persistence calls
DeadlinePcsWholeRun == ScrapePcs \cup {"returned", "history"}

\* the positions at which the run is suspended inside asyncio.wait_for
DeadlinePcs == ScrapePcs

\* faulty variant of TimeoutStatus: the timeout falls into `except Exception`
TimeoutStatusGeneric == "http500"

\* `except asyncio.TimeoutError`: HTTPException(status_code=504)
TimeoutStatus == "http504"

\* asyncio.wait_for(..., timeout=300) expires: the scraper is cancelled (its
\* `finally` closes the browser) and run_scrape raises HTTP 504
Deadline ==
    /\ pc \in DeadlinePcs
    /\ pc' = "done"
    /\ outcome' = TimeoutStatus
    /\ browser' = AfterFinally(browser)
    /\ events' = events \cup {"deadline"}
    /\ UNCHANGED <<uvars, service_vars, tables, request, place_links, last_height,
                   scroll_attempts_no_new, todo, results, rows_added,
                   feed_stable, observed, accumulated, summary_writes>>

\* rows_added = await loop.run_in_executor(executor, upsert_entities, results)
PersistEntities ==
    /\ pc = "returned"
    /\ \E db_up \in BOOLEAN :
         LET r == UpsertEntities(entities, results, DefaultPageSize, db_up)
         IN  /\ entities' = r.table
             /\ IF r.raised
                THEN /\ pc' = "done"
                     /\ outcome' = "http500"
                     /\ UNCHANGED rows_added
                ELSE /\ pc' = "history"
                     /\ rows_added' = r.count
                     /\ UNCHANGED outcome
             /\ events' = events \cup {"upsert_entities"}
                            \cup (IF r.raised THEN {"db_error"} ELSE {})
    /\ UNCHANGED <<uvars, service_vars, history, request, scrape_vars, feed_stable, observed,
                   accumulated, summary_writes>>

\* the history record is built and upsert_scrape_history runs in the executor;
\* then `return results`
PersistHistory ==
    /\ pc = "history"
    /\ \E db_up \in BOOLEAN :
         LET r == UpsertScrapeHistory(history,
                      <<HistoryRecord(query, Len(results))>>, HistoryPageSize, db_up)
         IN  /\ history' = r.table
             /\ outcome' = IF r.raised THEN "http500" ELSE "ok"
             /\ summary_writes' = summary_writes + r.count
             /\ summaries' =
                    IF r.raised THEN summaries
                    ELSE Append(summaries, [source |-> SourceId(query), query |-> query,
                                            count |-> Len(results)])
             /\ events' = events \cup {"upsert_scrape_history"}
                            \cup (IF r.raised THEN {"db_error"} ELSE {})
    /\ pc' = "done"
    /\ UNCHANGED <<uvars, runs, pool_vars, page_ops, txns, entities, request, scrape_vars, rows_added,
                   feed_stable, observed, accumulated>>

Next ==
    \/ ScrapeStep
    \/ FeedSettles
    \/ Deadline
    \/ PersistEntities
    \/ PersistHistory

Spec == Init /\ [][Next]_vars

(***************************************************************************)
(* RunsSpec: run_scrape serving one request after the other against the    *)
(* same tables.  scrape_google_maps is taken by what it returns.           *)
(***************************************************************************)
MaxRuns == 2

\* queries of which two differ in letter case only
RunQueries == Queries \cup {<<"b", "a", "r">>}

\* the record extracted from the i-th link
ScrapedRecord(i) ==
    [place_id |-> StrV(<<"p", Digits[i + 1]>>), name |-> NameA,
     link |-> StrV(<<LinkNames[i]>>)]
\* the list scrape_google_maps returns when it extracted n records
ScrapedList(n) == [i \in 1..n |-> ScrapedRecord(i)]

\* the service is started and receives its first request, a query of Q
RunsInitWith(Q) ==
    /\ u_records = <<>>
    /\ u_page_size = DefaultPageSize
    /\ u_calls = 0
    /\ u_ret = NotCalled
    /\ u_before = <<>>
    /\ entities = <<>>
    /\ history = <<>>
    /\ pc = "launch"
    /\ query \in Q
    /\ max_places = NoneV
    /\ browser = "none"
    /\ place_links = {}
    /\ last_height = 0
    /\ scroll_attempts_no_new = 0
    /\ todo = {}
    /\ results = <<>>
    /\ rows_added = 0
    /\ outcome = "none"
    /\ feed_stable = FALSE
    /\ observed = {}
    /\ accumulated = {}
    /\ events = {}
    /\ summary_writes = 0
    /\ ServiceIdle

RunsInit == RunsInitWith(RunQueries)

\* results = await asyncio.wait_for(scrape_google_maps(...), timeout=300)
\* returns a list in time
ScrapeReturns ==
    /\ pc = "launch"
    /\ \E n \in 0..NumLinks :
         /\ results' = ScrapedList(n)
         /\ place_links' = {ScrapedRecord(i).link : i \in 1..n}
    /\ pc' = "returned"
    /\ browser' = "closed"
    /\ UNCHANGED <<uvars, service_vars, tables, request, last_height,
                   scroll_attempts_no_new, todo, rows_added, outcome, ghost_vars>>

\* the endpoint is called again, with a query of Q, once the previous request
\* has been answered; at most `limit` times
NextRequestWith(Q, limit) ==
    /\ pc = "done"
    /\ runs < limit
    /\ runs' = runs + 1
    /\ pc' = "launch"
    /\ query' \in Q
    /\ max_places' = NoneV
    /\ browser' = "none"
    /\ place_links' = {}
    /\ last_height' = 0
    /\ scroll_attempts_no_new' = 0
    /\ todo' = {}
    /\ results' = <<>>
    /\ rows_added' = 0
    /\ outcome' = "none"
    /\ feed_stable' = FALSE
    /\ observed' = {}
    /\ accumulated' = {}
    /\ events' = {}
    /\ summary_writes' = 0
    /\ UNCHANGED <<uvars, tables, summaries, pool_vars, page_ops, txns>>

NextRequest == NextRequestWith(RunQueries, MaxRuns)

RunsNext ==
    \/ ScrapeReturns
    \/ Deadline
    \/ PersistEntities
    \/ PersistHistory
    \/ NextRequest

RunsSpec == RunsInit /\ [][RunsNext]_vars

\* the source ids of the summaries written so far
SummarySources == {summaries[i].source : i \in 1..Len(summaries)}
\* the latest summary written for a source id
LastSummary(source) ==
    summaries[Max({i \in 1..Len(summaries) : summaries[i].source = source})]

\* C11: the scrape_history table holds exactly one row per source id of the
\* successful runs so far, and the results_scraped of that row is the number
\* of records of the most recent successful run with that source id.
C11_OneSummaryPerSourceLastWins ==
    /\ Len(history) = Cardinality(SummarySources)
    /\ \A source \in SummarySources :
          /\ Cardinality(RowsWithSource(history, source)) = 1
          /\ \A i \in RowsWithSource(history, source) :
                 history[i].results_scraped = IntV(LastSummary(source).count)

\* two successful runs of one query with different numbers of records, and a
\* third of another query: the first row holds the count of the second run
C11_Witness ==
    /\ Len(summaries) = 3
    /\ summaries[1].query = summaries[2].query
    /\ summaries[1].count # summaries[2].count
    /\ summaries[3].source # summaries[1].source
    /\ Len(history) = 2
    /\ history[1].source = StrV(summaries[1].source)
    /\ history[1].results_scraped = IntV(summaries[2].count)

(***************************************************************************)
(* QuerySpec: two or more requests whose queries differ in letter case,    *)
(* commas, spaces or length, served one after the other.                   *)
(***************************************************************************)
MaxQueryRuns == 1

\* a query one character longer than the slice [:50] keeps
LongQuery == [i \in 1..(SourceIdMaxLen + 1) |-> "z"]
\* queries that differ in letter case only ("Bar", "bar"), in a comma only
\* ("bar, x", "bar x") and in a space only ("bar x", "barx")
\* a query that differs from LongQuery in the character the slice drops
OtherLongQuery == [LongQuery EXCEPT ![SourceIdMaxLen + 1] = "y"]
KeyQueries ==
    Queries \cup {<<"b", "a", "r">>, <<"B", "a", "r", " ", "x">>,
                  <<"b", "a", "r", "x">>, LongQuery, OtherLongQuery}

QueryInit == RunsInitWith(KeyQueries)

NextQuery == NextRequestWith(KeyQueries, MaxQueryRuns)

QueryNext ==
    \/ ScrapeReturns
    \/ Deadline
    \/ PersistEntities
    \/ PersistHistory
    \/ NextQuery

QuerySpec == QueryInit /\ [][QueryNext]_vars

\* the queries of the successful runs so far
SummaryIndexes == 1..Len(summaries)
IsNotSpace(c) == ~IsSpace(c)
\* a query without its letter case and its commas
CaseAndCommaFree(q) == SelectSeq([i \in 1..Len(q) |-> LowerChar(q[i])], IsNotComma)
\* a query without its letter case, its commas and its whitespace
CaseCommaAndSpaceFree(q) == SelectSeq(CaseAndCommaFree(q), IsNotSpace)

Normalized(q) == DropCommas(SpacesToUnderscores(Lower(q)))

\* C39: two recorded runs whose queries differ after normalization have
\* different source ids, and the summary row of each is in the table.
C39_DistinctQueriesDistinctSummaries ==
    \A i, j \in SummaryIndexes :
        Normalized(summaries[i].query) # Normalized(summaries[j].query) =>
            /\ summaries[i].source # summaries[j].source
            /\ \E r \in 1..Len(history) :
                   Normalized(history[r].search_key.v) = Normalized(summaries[i].query)

(***************************************************************************)
(* PoolSpec: get_pool, close_pool and db_connection, with the worker       *)
(* threads of the executor writing through db_connection.                  *)
(***************************************************************************)
MaxPools == 3
MaxCloses == 2

PoolInit ==
    /\ u_records = <<>>
    /\ u_page_size = DefaultPageSize
    /\ u_calls = 0
    /\ u_ret = NotCalled
    /\ u_before = <<>>
    /\ entities = <<>>
    /\ history = <<>>
    /\ RunIdle
    /\ ServiceIdle

\* SimpleConnectionPool(minconn=2, maxconn=maxconn, dsn=dsn): open, nothing
\* checked out; `born` is the number of close_pool calls before it was made
NewPool == [closed |-> FALSE, used |-> 0, born |-> closes]

\* `pool = get_pool()` in db_connection: the lru_cache is looked up; a hit
\* returns the cached pool, a miss calls the wrapped function
GetPoolLookup(t) ==
    /\ threads[t].pc = "idle"
    /\ threads' = [threads EXCEPT ![t] =
                       IF pool_cache # 0
                       THEN [pc |-> "getconn", pool |-> pool_cache, path |-> "none"]
                       ELSE [pc |-> "creating", pool |-> 0, path |-> "none"]]
    /\ UNCHANGED <<pool_cache, pools, closes>>
    /\ UNCHANGED <<uvars, tables, run_vars, runs, summaries, page_ops, txns>>

\* the wrapped get_pool returns after a miss.  lru_cache holds no lock while
\* the wrapped function runs: the result is stored unless the key was
\* stored meanwhile, and the caller gets the pool it made itself
GetPoolCreates(t) ==
    /\ threads[t].pc = "creating"
    /\ \/ /\ Len(pools) < MaxPools
          /\ pools' = Append(pools, NewPool)
          /\ pool_cache' = IF pool_cache = 0 THEN Len(pools) + 1 ELSE pool_cache
          /\ threads' = [threads EXCEPT ![t] =
                             [pc |-> "getconn", pool |-> Len(pools) + 1, path |-> "none"]]
       \/ \* SimpleConnectionPool raises (the database cannot be reached):
          \* nothing is cached and the write fails
          /\ threads' = [threads EXCEPT ![t] =
                             [pc |-> "idle", pool |-> 0, path |-> "pool_error"]]
          /\ UNCHANGED <<pool_cache, pools>>
    /\ UNCHANGED closes
    /\ UNCHANGED <<uvars, tables, run_vars, runs, summaries, page_ops, txns>>

\* ThreadPoolExecutor(max_workers=4): the threads that run the two writes
max_workers == 4

\* `maxconn = maxconn or 15`: the most connections one pool hands out
DefaultMaxConn == 15

\* faulty variant of Exhausted: the pool hands out one connection only
ExhaustedAtOne(pool) == pool.used >= 1

\* getconn finds every connection of the pool checked out
Exhausted(pool) == pool.used >= DefaultMaxConn

\* `conn = pool.getconn()`: PoolError when the pool has been closed, or when
\* maxconn connections are checked out already
PoolGetConn(t) ==
    /\ threads[t].pc = "getconn"
    /\ IF pools[threads[t].pool].closed
       THEN /\ threads' = [threads EXCEPT ![t] =
                               [pc |-> "idle", pool |-> 0, path |-> "pool_error"]]
            /\ UNCHANGED pools
       ELSE IF Exhausted(pools[threads[t].pool])
       THEN /\ threads' = [threads EXCEPT ![t] =
                               [pc |-> "idle", pool |-> 0, path |-> "pool_exhausted"]]
            /\ UNCHANGED pools
       ELSE /\ pools' = [pools EXCEPT ![threads[t].pool].used = @ + 1]
            /\ threads' = [threads EXCEPT ![t].pc = "write"]
    /\ UNCHANGED <<pool_cache, closes>>
    /\ UNCHANGED <<uvars, tables, run_vars, runs, summaries, page_ops, txns>>

\* the body of `with db_connection() as conn`: execute_values and commit
\* succeed, or one of them raises
WriteRows(t) ==
    /\ threads[t].pc = "write"
    /\ \E path \in {"ok", "execute_error", "commit_error"} :
         threads' = [threads EXCEPT ![t].pc = "putconn", ![t].path = path]
    /\ UNCHANGED <<pool_cache, pools, closes>>
    /\ UNCHANGED <<uvars, tables, run_vars, runs, summaries, page_ops, txns>>

\* faulty variant of Released: putconn is not in a `finally`
ReleasedOnSuccessOnly(path) == path = "ok"

\* `finally: pool.putconn(conn)` runs however the body was left
Released(path) == TRUE

\* leaving db_connection: the connection goes back to the pool it came from
PoolPutConn(t) ==
    /\ threads[t].pc = "putconn"
    /\ pools' = IF Released(threads[t].path)
                THEN [pools EXCEPT ![threads[t].pool].used = @ - 1]
                ELSE pools
    /\ threads' = [threads EXCEPT ![t].pc = "idle", ![t].pool = 0]
    /\ UNCHANGED <<pool_cache, closes>>
    /\ UNCHANGED <<uvars, tables, run_vars, runs, summaries, page_ops, txns>>

\* close_pool (docstring: "use in tests/shutdown"), called while no thread is
\* between getconn and putconn: get_pool().closeall(), then cache_clear() in
\* the `finally`, also when get_pool() had to make the pool and that raised
ClosePool ==
    /\ closes < MaxCloses
    /\ \A t \in Threads : threads[t].pc \notin {"write", "putconn"}
    /\ \/ /\ pool_cache # 0
          /\ pools' = [pools EXCEPT ![pool_cache].closed = TRUE]
       \/ \* nothing cached: get_pool() makes a pool and it is closed at once
          /\ pool_cache = 0
          /\ Len(pools) < MaxPools
          /\ pools' = Append(pools, [NewPool EXCEPT !.closed = TRUE])
       \/ \* nothing cached and SimpleConnectionPool raises
          /\ pool_cache = 0
          /\ UNCHANGED pools
    /\ pool_cache' = 0
    /\ closes' = closes + 1
    /\ UNCHANGED threads
    /\ UNCHANGED <<uvars, tables, run_vars, runs, summaries, page_ops, txns>>

PoolNext ==
    \/ \E t \in Threads : GetPoolLookup(t)
    \/ \E t \in Threads : GetPoolCreates(t)
    \/ \E t \in Threads : PoolGetConn(t)
    \/ \E t \in Threads : WriteRows(t)
    \/ \E t \in Threads : PoolPutConn(t)
    \/ ClosePool

PoolSpec == PoolInit /\ [][PoolNext]_vars

\* C15: the connections a pool has handed out are those of the threads that
\* are inside `with db_connection()` on that pool; a thread that has left the
\* block, however its write ended, holds none, so with every thread idle no
\* connection of any pool is checked out.
C15_ConnectionAlwaysReturned ==
    /\ \A p \in 1..Len(pools) :
          pools[p].used =
              Cardinality({t \in Threads : /\ threads[t].pc \in {"write", "putconn"}
                                           /\ threads[t].pool = p})
    /\ (\A t \in Threads : threads[t].pc = "idle") =>
          \A p \in 1..Len(pools) : pools[p].used = 0

\* one thread is back from a write whose commit raised, another from a write
\* whose execute raised, and nothing is checked out
C15_Witness ==
    /\ \E t \in Threads : threads[t] = [pc |-> "idle", pool |-> 0, path |-> "commit_error"]
    /\ \E t \in Threads : threads[t] = [pc |-> "idle", pool |-> 0, path |-> "execute_error"]
    /\ pools # <<>>
    /\ \A p \in 1..Len(pools) : pools[p].used = 0

\* C16: the pools made while the number of close_pool calls stood at one
\* value are one and the same pool, and the cached pool is never a closed one.
C16_OnePoolBetweenCloses ==
    /\ \A p, q \in 1..Len(pools) : pools[p].born = pools[q].born => p = q
    /\ pool_cache # 0 => ~pools[pool_cache].closed

\* C36: worker threads inside db_connection whose pools were made in the same
\* interval between close_pool calls all hold the same pool.
C36_ConcurrentFirstUseOnePool ==
    \A t, u \in Threads :
        (/\ threads[t].pool # 0
         /\ threads[u].pool # 0
         /\ pools[threads[t].pool].born = pools[threads[u].pool].born) =>
            threads[t].pool = threads[u].pool

\* the connections checked out of all pools together
CheckedOut == Cardinality({t \in Threads : threads[t].pc \in {"write", "putconn"}})

\* C37: the worker threads are no more than max_workers, which is below the
\* ceiling of a pool; no pool has more connections out than there are worker
\* threads, all pools together have no more out than that either, and no
\* call to getconn has found its pool exhausted.
C37_PoolNeverExhausted ==
    /\ NumThreads <= max_workers
    /\ max_workers < DefaultMaxConn
    /\ CheckedOut <= NumThreads
    /\ \A p \in 1..Len(pools) : pools[p].used <= NumThreads
    /\ \A t \in Threads : threads[t].path # "pool_exhausted"

\* every worker thread holds a connection of one and the same pool
C37_Witness ==
    /\ CheckedOut = NumThreads
    /\ \E p \in 1..Len(pools) : pools[p].used = NumThreads

(***************************************************************************)
(* PageSpec: the scroll loop and the extraction loop of scrape_google_maps *)
(* await by await.  Every browser operation is started, is in flight, and  *)
(* completes or raises; `await` suspends the coroutine in between.  What   *)
(* the feed shows and which branch a cycle takes are left open.            *)
(***************************************************************************)
PageInit ==
    /\ u_records = <<>>
    /\ u_page_size = DefaultPageSize
    /\ u_calls = 0
    /\ u_ret = NotCalled
    /\ u_before = <<>>
    /\ entities = <<>>
    /\ history = <<>>
    /\ pc = "scroll"
    /\ query \in Queries
    /\ max_places \in QuotaValues
    /\ browser = "open"
    /\ place_links = {}
    /\ last_height \in 1..MaxHeight
    /\ scroll_attempts_no_new = 0
    /\ todo = {}
    /\ results = <<>>
    /\ rows_added = 0
    /\ outcome = "none"
    /\ feed_stable = FALSE
    /\ observed = {}
    /\ accumulated = {}
    /\ events = {}
    /\ summary_writes = 0
    /\ runs = 0
    /\ summaries = <<>>
    /\ pool_cache = 0
    /\ pools = <<>>
    /\ closes = 0
    /\ threads = [t \in Threads |-> IdleThread]
    /\ page_ops = [IdlePage EXCEPT !.at = "scroll"]
    /\ txns = [t \in Threads |-> IdleTxn]

\* faulty variant of Suspended: operations are started without being awaited
NeverSuspended(ops) == FALSE

\* the coroutine is suspended in an `await` until the operation it started
\* has completed or raised
Suspended(ops) == ops.in_flight # <<>>

\* the awaits of the scroll loop, in program order
ScrollOps == {"scroll", "read_links", "read_height", "read_marker"}
\* the awaits of one iteration of the extraction loop, in program order
ItemOps == {"navigate", "read_content"}

\* the coroutine reaches the next `await page....` and starts the operation;
\* `for link in place_links` takes the next link before page.goto(link)
BrowserOpStarts ==
    /\ pc \in {"scroll", "extract"}
    /\ ~Suspended(page_ops)
    /\ \/ /\ page_ops.at \in ScrollOps
          /\ page_ops' = [page_ops EXCEPT
                 !.in_flight = Append(@, [kind |-> page_ops.at, link |-> NoneV])]
       \/ /\ page_ops.at = "navigate"
          /\ \E link \in todo :
               page_ops' = [page_ops EXCEPT
                   !.in_flight = Append(@, [kind |-> "navigate", link |-> link]),
                   !.current = link]
       \/ /\ page_ops.at = "read_content"
          /\ page_ops' = [page_ops EXCEPT
                 !.in_flight = Append(@, [kind |-> "read_content", link |-> page_ops.current])]
    /\ UNCHANGED <<uvars, tables, run_vars, runs, summaries, pool_vars, txns>>

\* the operation in flight completes and the coroutine runs to its next await
ScrollOpCompletes ==
    /\ pc = "scroll"
    /\ page_ops.in_flight # <<>>
    /\ \/ \* page.evaluate(scrollTop = scrollHeight), then the pause
          /\ page_ops.at = "scroll"
          /\ page_ops' = [page_ops EXCEPT !.in_flight = Tail(@), !.at = "read_links"]
          /\ UNCHANGED <<pc, place_links, todo, accumulated, observed>>
       \/ \* evaluate_all returns the links; the quota check follows
          /\ page_ops.at = "read_links"
          /\ \E current_links \in SUBSET Links :
               LET all_links == place_links \cup current_links
               IN  /\ observed' = observed \cup current_links
                   /\ accumulated' = all_links
                   /\ IF QuotaReached(all_links)
                      THEN /\ \E kept \in SUBSET all_links :
                                /\ Cardinality(kept) =
                                       SliceLen(Cardinality(all_links), max_places.v)
                                /\ place_links' = kept
                                /\ todo' = kept
                           /\ pc' = "extract"
                           /\ page_ops' = [page_ops EXCEPT !.in_flight = Tail(@),
                                                            !.at = "navigate"]
                      ELSE /\ place_links' = all_links
                           /\ page_ops' = [page_ops EXCEPT !.in_flight = Tail(@),
                                                            !.at = "read_height"]
                           /\ UNCHANGED <<pc, todo>>
       \/ \* evaluate(scrollHeight) returns the old height or another one
          /\ page_ops.at = "read_height"
          /\ \E same \in BOOLEAN :
               page_ops' = [page_ops EXCEPT !.in_flight = Tail(@),
                               !.at = IF same THEN "read_marker" ELSE "scroll"]
          /\ UNCHANGED <<pc, place_links, todo, accumulated, observed>>
       \/ \* locator(end_marker_xpath).count() returns: the loop breaks (marker
          \* there, or stagnation limit reached) or goes round again
          /\ page_ops.at = "read_marker"
          /\ \/ /\ pc' = "extract"
                /\ todo' = place_links
                /\ page_ops' = [page_ops EXCEPT !.in_flight = Tail(@), !.at = "navigate"]
             \/ /\ page_ops' = [page_ops EXCEPT !.in_flight = Tail(@), !.at = "scroll"]
                /\ UNCHANGED <<pc, todo>>
          /\ UNCHANGED <<place_links, accumulated, observed>>
    /\ UNCHANGED <<uvars, tables, request, browser, last_height, scroll_attempts_no_new,
                   results, rows_added, outcome, feed_stable, events, summary_writes,
                   runs, summaries, pool_vars, txns>>

\* the operation in flight raises inside the scroll loop: the outer `except`
\* ends the run of the scraper
ScrollOpRaises ==
    /\ pc = "scroll"
    /\ page_ops.in_flight # <<>>
    /\ page_ops' = [page_ops EXCEPT !.in_flight = Tail(@), !.at = "none"]
    /\ ScrapeRaises
    /\ UNCHANGED <<uvars, tables, request, place_links, last_height,
                   scroll_attempts_no_new, todo, results, rows_added, feed_stable,
                   observed, accumulated, summary_writes, runs, summaries, pool_vars, txns>>

\* the operation in flight for the current link completes
ItemOpCompletes ==
    /\ pc = "extract"
    /\ page_ops.in_flight # <<>>
    /\ \/ \* page.goto(link) returns
          /\ page_ops.at = "navigate"
          /\ page_ops' = [page_ops EXCEPT !.in_flight = Tail(@), !.at = "read_content"]
          /\ UNCHANGED <<todo, results>>
       \/ \* page.content() returns and the extractor yields a record or None
          /\ page_ops.at = "read_content"
          /\ page_ops' = [page_ops EXCEPT !.in_flight = Tail(@), !.at = "navigate",
                                           !.current = NoneV]
          /\ todo' = todo \ {page_ops.current}
          /\ \/ \E place_data \in ExtractPool :
                  results' = Append(results, WithLink(place_data, page_ops.current))
             \/ results' = results
    /\ UNCHANGED <<uvars, tables, pc, request, browser, place_links, last_height,
                   scroll_attempts_no_new, rows_added, outcome, ghost_vars,
                   runs, summaries, pool_vars, txns>>

\* page.goto(link) or page.content() times out or raises: the item is skipped
ItemOpRaises ==
    /\ pc = "extract"
    /\ page_ops.in_flight # <<>>
    /\ page_ops' = [page_ops EXCEPT !.in_flight = Tail(@), !.at = "navigate",
                                     !.current = NoneV]
    /\ todo' = todo \ {page_ops.current}
    /\ UNCHANGED <<uvars, tables, pc, request, browser, place_links, last_height,
                   scroll_attempts_no_new, results, rows_added, outcome, ghost_vars,
                   runs, summaries, pool_vars, txns>>

\* the `for` loop has no link left
ExtractionEnds ==
    /\ pc = "extract"
    /\ page_ops.at = "navigate"
    /\ ~Suspended(page_ops)
    /\ todo = {}
    /\ pc' = "returned"
    /\ browser' = "closed"
    /\ page_ops' = [page_ops EXCEPT !.at = "none"]
    /\ UNCHANGED <<uvars, tables, request, place_links, last_height,
                   scroll_attempts_no_new, todo, results, rows_added, outcome,
                   ghost_vars, runs, summaries, pool_vars, txns>>

PageNext ==
    \/ BrowserOpStarts
    \/ ScrollOpCompletes
    \/ ScrollOpRaises
    \/ ItemOpCompletes
    \/ ItemOpRaises
    \/ ExtractionEnds

PageSpec == PageInit /\ [][PageNext]_vars

\* the links the extraction loop is done with
Processed == place_links \ todo

\* C17: at most one browser operation is in flight at any time; during
\* extraction the operation in flight belongs to the one link in work, which
\* is still on the list, and every record gathered so far belongs to a link
\* that is done: no link is started before the one before it has completed
\* or failed.
C17_OneBrowserOperationAtATime ==
    /\ Len(page_ops.in_flight) <= 1
    /\ pc = "extract" =>
          /\ \A i \in 1..Len(page_ops.in_flight) :
                 /\ page_ops.in_flight[i].link = page_ops.current
                 /\ page_ops.current \in todo
          /\ \A i \in 1..Len(results) : results[i].link \in Processed
          /\ Len(results) <= Cardinality(Processed)

\* the first link is done and has given a record, the navigation to the
\* second link is the only operation in flight
C17_Witness ==
    /\ pc = "extract"
    /\ Cardinality(place_links) = 2
    /\ Cardinality(todo) = 1
    /\ Len(results) = 1
    /\ Len(page_ops.in_flight) = 1
    /\ page_ops.in_flight[1].kind = "navigate"
    /\ page_ops.in_flight[1].link \in todo

(***************************************************************************)
(* ScrollSpec: the scroll loop of scrape_google_maps from its first cycle, *)
(* followed by the extraction loop.  page_ops.cycle keeps what the last    *)
(* cycle read from the feed, the counter it started with, and how many     *)
(* cycles in a row have shown the old height and no new link.              *)
(***************************************************************************)
ScrollInit ==
    /\ u_records = <<>>
    /\ u_page_size = DefaultPageSize
    /\ u_calls = 0
    /\ u_ret = NotCalled
    /\ u_before = <<>>
    /\ entities = <<>>
    /\ history = <<>>
    /\ pc = "scroll"
    /\ query \in Queries
    /\ max_places \in QuotaValues
    /\ browser = "open"
    /\ place_links = {}
    /\ last_height \in 1..MaxHeight
    /\ scroll_attempts_no_new = 0
    /\ todo = {}
    /\ results = <<>>
    /\ rows_added = 0
    /\ outcome = "none"
    /\ feed_stable = FALSE
    /\ observed = {}
    /\ accumulated = {}
    /\ events = {}
    /\ summary_writes = 0
    /\ ServiceIdle

\* the cycle reads the height measured last and no link it does not have
StagnantRead(read) == read.height = last_height /\ read.links \subseteq place_links

\* one pass through the body of `while True`, with its readings kept
ScrollCycleRead ==
    \E read \in FeedReads :
        /\ ScrollCycleBody(read)
        /\ page_ops' = [page_ops EXCEPT !.cycle =
               [read |-> read,
                before |-> scroll_attempts_no_new,
                stagnant |-> IF StagnantRead(read)
                             THEN Min(@.stagnant + 1, MAX_SCROLL_ATTEMPTS_WITHOUT_NEW_LINKS + 1)
                             ELSE 0]]

ScrollNext ==
    \/ ScrollCycleRead
    \/ FeedSettles
    \/ ScrollRaises
    \/ ExtractItem
    \/ CloseAndReturn

ScrollSpec == ScrollInit /\ [][ScrollNext]_vars

\* this step is one scroll cycle
CycleStep == pc = "scroll" /\ pc' \in {"scroll", "extract"} /\ feed_stable' = feed_stable
\* what the cycle of this step read
CycleRead == page_ops'.cycle.read
\* the cycle of this step measured the height it had before
HeightUnchanged == CycleRead.height = last_height
\* the cycle of this step saw a link for the first time
SawNewLink == ~(CycleRead.links \subseteq place_links)
\* the cycle of this step left the loop at the quota check, before measuring
QuotaHit == QuotaReached(place_links \cup CycleRead.links)

\* C23: in a cycle that gets past the quota check the counter is incremented
\* exactly when the height is unchanged, the end marker is absent and no new
\* link was found; a cycle after which the loop goes on and which showed
\* another height or a new link leaves the counter at 0.
C23_StagnationCounting ==
    [][CycleStep =>
          /\ scroll_attempts_no_new' # scroll_attempts_no_new =>
                 scroll_attempts_no_new' \in {0, scroll_attempts_no_new + 1}
          /\ scroll_attempts_no_new' = scroll_attempts_no_new + 1 <=>
                 (~QuotaHit /\ HeightUnchanged /\ ~CycleRead.marker /\ ~SawNewLink)
          /\ (pc' = "scroll" /\ (~HeightUnchanged \/ SawNewLink)) =>
                 scroll_attempts_no_new' = 0]_vars

\* two stagnant cycles had been counted when a cycle with the old height and
\* a new link put the counter back to 0
C23_Witness ==
    /\ pc = "scroll"
    /\ page_ops.cycle.before = 2
    /\ scroll_attempts_no_new = 0
    /\ page_ops.cycle.read.height = last_height
    /\ page_ops.cycle.read.links # {}
    /\ page_ops.cycle.stagnant = 0

\* C24: a cycle that hits no quota and sees no end marker leaves the loop
\* exactly when it is the 5th cycle in a row with the old height and no new
\* link; the run is not failed by this exit: the browser stays open and the
\* extraction loop gets every link collected.
C24_ExitAtFifthStagnantCycle ==
    [][(CycleStep /\ ~QuotaHit /\ ~(HeightUnchanged /\ CycleRead.marker)) =>
          /\ pc' = "extract" <=>
                 page_ops'.cycle.stagnant = MAX_SCROLL_ATTEMPTS_WITHOUT_NEW_LINKS
          /\ pc' = "extract" =>
                 /\ place_links' = place_links \cup CycleRead.links
                 /\ todo' = place_links'
                 /\ browser' = "open"
                 /\ events' = events \cup {"stagnation"}
                 /\ outcome' = outcome]_vars

\* the loop was left after five stagnant cycles and extraction has given a
\* record for a link
C24_Witness ==
    /\ "stagnation" \in events
    /\ page_ops.cycle.stagnant = MAX_SCROLL_ATTEMPTS_WITHOUT_NEW_LINKS
    /\ page_ops.cycle.before = MAX_SCROLL_ATTEMPTS_WITHOUT_NEW_LINKS - 1
    /\ max_places = NoneV
    /\ place_links # {}
    /\ Len(results) >= 1
    /\ "run_failure" \notin events

\* C25: the end marker decides a cycle only when the cycle got past the quota
\* check and measured the old height; in such a cycle, when the marker is
\* there, the loop ends in that cycle whatever the counter is, and every link
\* collected, those of this cycle included, goes to extraction.
C25_EndMarkerEndsLoop ==
    [][CycleStep =>
          /\ "end_marker" \in events' \ events =>
                 (~QuotaHit /\ HeightUnchanged /\ CycleRead.marker)
          /\ (~QuotaHit /\ HeightUnchanged /\ CycleRead.marker) =>
                 /\ pc' = "extract"
                 /\ "end_marker" \in events'
                 /\ place_links' = place_links \cup CycleRead.links
                 /\ todo' = place_links'
                 /\ browser' = "open"
                 /\ outcome' = outcome
          /\ (~QuotaHit /\ ~HeightUnchanged /\ CycleRead.marker) =>
                 pc' = "scroll"]_vars

\* the marker ended the loop with the counter at 3, in a cycle that saw a
\* link for the first time
C25_Witness ==
    /\ pc = "extract"
    /\ "end_marker" \in events
    /\ page_ops.cycle.before = 3
    /\ scroll_attempts_no_new = 3
    /\ page_ops.cycle.read.marker
    /\ Cardinality(place_links) = 2
    /\ Cardinality(page_ops.cycle.read.links) = 2
    /\ todo = place_links

(***************************************************************************)
(* TxnSpec: upsert_entities running on several worker threads at once.     *)
(* Every call is one transaction (READ COMMITTED) with one INSERT ... ON    *)
(* CONFLICT (place_id) DO UPDATE statement; the rows of the statement are   *)
(* written one after the other.  A row whose place_id another open          *)
(* transaction has written waits for that transaction to end; transactions  *)
(* waiting for one another are a deadlock, which PostgreSQL resolves by     *)
(* failing one of them.                                                     *)
(***************************************************************************)
\* the record thread t scraped for a place: the non-key columns tell the
\* threads apart
ThreadRecord(t, key) ==
    [place_id |-> key, name |-> IF t = 1 THEN NameA ELSE NameB,
     rating |-> IntV(t), reviews_count |-> IntV(10 * t)]

\* lists of place_ids without repetition, in any order
KeyLists == {ks \in SeqsUpTo(Keys, Cardinality(Keys)) :
                ks # <<>> /\ \A i, j \in 1..Len(ks) : ks[i] = ks[j] => i = j}

TxnInit ==
    /\ u_records = <<>>
    /\ u_page_size = DefaultPageSize
    /\ u_calls = 0
    /\ u_ret = NotCalled
    /\ u_before = <<>>
    /\ entities = <<>>
    /\ history = <<>>
    /\ RunIdle
    /\ runs = 0
    /\ summaries = <<>>
    /\ pool_cache = 0
    /\ pools = <<>>
    /\ closes = 0
    /\ threads = [t \in Threads |-> IdleThread]
    /\ page_ops = IdlePage
    /\ \E lists \in [Threads -> KeyLists] :
         txns = [t \in Threads |->
                    [rows |-> RowsOf([i \in 1..Len(lists[t]) |-> ThreadRecord(t, lists[t][i])]),
                     pos |-> 0, state |-> "active", pending |-> <<>>]]

\* the place_ids a transaction has written and not yet committed
PendingKeys(t) == {txns[t].pending[i].place_id : i \in 1..Len(txns[t].pending)} \ {NoneV}

\* the open transaction holding the row lock of a place_id, or 0
LockHolder(key) ==
    IF key # NoneV /\ \E u \in Threads : txns[u].state = "active" /\ key \in PendingKeys(u)
    THEN CHOOSE u \in Threads : txns[u].state = "active" /\ key \in PendingKeys(u)
    ELSE 0

\* the row the statement of t writes next
NextRow(t) == txns[t].rows[txns[t].pos + 1]

HasNextRow(t) == txns[t].state = "active" /\ txns[t].pos < Len(txns[t].rows)

\* t waits for the transaction that wrote the place_id of its next row
WaitsFor(t) ==
    IF HasNextRow(t) /\ LockHolder(NextRow(t).place_id) \notin {0, t}
    THEN LockHolder(NextRow(t).place_id)
    ELSE 0

\* ON CONFLICT (place_id) DO UPDATE SET <the eight other columns> = EXCLUDED.*
DoUpdateSet(old, excluded) ==
    [old EXCEPT !.name = excluded.name,
                !.address = excluded.address,
                !.google_rating = excluded.google_rating,
                !.review_count = excluded.review_count,
                !.entity_categories = excluded.entity_categories,
                !.website = excluded.website,
                !.phone = excluded.phone,
                !.google_link = excluded.google_link]

RECURSIVE ApplyPending(_, _)
\* the committed table once the writes of a transaction become visible
ApplyPending(tbl, pending) ==
    IF pending = <<>> THEN tbl
    ELSE LET row == Head(pending)
             i == ConflictIndex(tbl, row.place_id)
         IN  IF i = 0 THEN ApplyPending(Append(tbl, row), Tail(pending))
             ELSE ApplyPending([tbl EXCEPT ![i] = DoUpdateSet(tbl[i], row)], Tail(pending))

\* the statement of t writes its next row (inserts it, or updates the row
\* that is there); a place_id the statement has written before is an error
TxnWriteRow(t) ==
    /\ HasNextRow(t)
    /\ WaitsFor(t) = 0
    /\ IF NextRow(t).place_id \in PendingKeys(t)
       THEN txns' = [txns EXCEPT ![t].state = "failed", ![t].pending = <<>>]
       ELSE txns' = [txns EXCEPT ![t].pos = @ + 1,
                                 ![t].pending = Append(@, NextRow(t))]
    /\ UNCHANGED <<uvars, tables, run_vars, runs, summaries, pool_vars, page_ops>>

\* conn.commit(): the rows become visible and the locks are released
TxnCommit(t) ==
    /\ txns[t].state = "active"
    /\ txns[t].pos = Len(txns[t].rows)
    /\ entities' = ApplyPending(entities, txns[t].pending)
    /\ txns' = [txns EXCEPT ![t].state = "committed", ![t].pending = <<>>]
    /\ UNCHANGED <<uvars, history, run_vars, runs, summaries, pool_vars, page_ops>>

\* t is one of a set of transactions each waiting for another of the set:
\* PostgreSQL reports "deadlock detected" to one of them; its upsert_entities
\* raises and putconn rolls its transaction back
TxnDeadlock(t) ==
    /\ \E waiting \in SUBSET Threads :
         /\ t \in waiting
         /\ \A x \in waiting : WaitsFor(x) \in waiting
    /\ txns' = [txns EXCEPT ![t].state = "failed", ![t].pending = <<>>]
    /\ UNCHANGED <<uvars, tables, run_vars, runs, summaries, pool_vars, page_ops>>

TxnNext ==
    \/ \E t \in Threads : TxnWriteRow(t)
    \/ \E t \in Threads : TxnCommit(t)
    \/ \E t \in Threads : TxnDeadlock(t)

TxnSpec == TxnInit /\ [][TxnNext]_vars

\* every call has returned or raised
AllCallsEnded == \A t \in Threads : txns[t].state \in {"committed", "failed"}
\* the place_ids thread t was called with
KeysOf(t) == {txns[t].rows[i].place_id : i \in 1..Len(txns[t].rows)}

\* C20: when all calls have ended, none of them has failed, and for every
\* place_id there is exactly one row, equal in every column to the row one
\* of the calls sent for it.
C20_ConcurrentUpsertsKeepEveryRow ==
    AllCallsEnded =>
        /\ \A t \in Threads : txns[t].state = "committed"
        /\ \A t \in Threads : \A key \in KeysOf(t) :
               /\ Cardinality(RowsWithKey(entities, key)) = 1
               /\ \A i \in RowsWithKey(entities, key) :
                      \E u \in Threads : entities[i] = ToRow(ThreadRecord(u, key))

\* scrape_google_maps called on its own: no deadline, no persistence
ScrapeNext == ScrapeStep \/ FeedSettles

\* the event loop resumes the coroutine after every await; that a browser
\* call raises is not something scheduling guarantees
ScrapeSpec == Init /\ [][ScrapeNext]_vars /\ WF_vars(ScrapeFlow)


(***************************************************************************)
(* Claims about a run (checked under Spec, C2 under ScrapeSpec)            *)
(***************************************************************************)
HistoryRowsOf(q) == {i \in 1..Len(history) : history[i].source = StrV(SourceId(q))}

\* C1: with max_places = k >= 1 and more than k links accumulated, the set
\* handed to the extraction loop has exactly k elements, all of them links
\* that were read from the feed.
C1_QuotaYieldsExactlyK ==
    (/\ pc = "extract"
     /\ max_places # NoneV
     /\ max_places.v >= 1
     /\ Cardinality(accumulated) > max_places.v) =>
        /\ Cardinality(place_links) = max_places.v
        /\ place_links \subseteq observed

\* C2: the scroll loop, once entered, is always left again, whatever the feed
\* does (the end-of-list marker is only looked for when the height repeats).
C2_ScrollLoopTerminates == (pc = "scroll") ~> (pc # "scroll")

\* C13: a step of the extraction loop that takes an identifier off the list
\* handles exactly that one, whether it yields a record or fails: the records
\* gathered before are kept, at most one is added, the loop goes on (no
\* exception leaves the stage, the browser stays open, nothing is reported).
C13_ItemFailureSkipsOnlyThatItem ==
    [][(pc = "extract" /\ todo' # todo) =>
          /\ pc' = "extract"
          /\ todo' \subseteq todo
          /\ Cardinality(todo \ todo') = 1
          /\ place_links' = place_links
          /\ \/ results' = results
             \/ /\ Len(results') = Len(results) + 1
                /\ SubSeq(results', 1, Len(results)) = results
          /\ events' = events
          /\ browser' = browser
          /\ outcome' = outcome]_vars

\* of two discovered identifiers one was skipped; the stage returned the
\* record of the other without an error
C13_Witness ==
    /\ pc = "returned"
    /\ "run_failure" \notin events
    /\ todo = {}
    /\ Cardinality(place_links) = 2
    /\ Len(results) = 1

C19_StagesInOrder ==
    /\ (results # <<>> \/ todo # {}) =>
          pc \notin {"launch", "goto", "consent", "wait_feed", "check_feed", "scroll"}
    /\ pc = "extract" => (todo \subseteq place_links /\ Len(results) <= Cardinality(place_links \ todo))
    /\ "upsert_entities" \in events =>
          /\ todo = {}
          /\ pc \in {"history", "done"}
    /\ pc = "history" =>
          /\ "upsert_entities" \in events
          /\ "db_error" \notin events
          /\ "upsert_scrape_history" \notin events
          /\ rows_added = Len(RowsOf(results))
    /\ "upsert_scrape_history" \in events =>
          /\ "upsert_entities" \in events
          /\ pc = "done"
    /\ outcome = "ok" =>
          /\ pc = "done"
          /\ {"upsert_entities", "upsert_scrape_history"} \subseteq events
          /\ "db_error" \notin events

\* a run that scrolled to the end marker, extracted both links, wrote two
\* entity rows and then its summary
C19_Witness ==
    /\ outcome = "ok"
    /\ max_places = NoneV
    /\ "end_marker" \in events
    /\ Len(results) = 2
    /\ Len(entities) = 2
    /\ Len(history) = 1

\* C26: once the wait for the feed has timed out on a single-place page, no
\* scroll cycle is started and discovery ends with the page URL as its only
\* identifier.
C26_FallbackSkipsScrolling ==
    "single_place" \in events =>
        /\ pc # "scroll"
        /\ pc \in {"extract", "returned", "history", "done"} =>
               (place_links = {PageUrl} \/ "run_failure" \in events)

\* C29: no step of a run puts a link back on the list of links to visit:
\* every iteration of the extraction loop, whether it adds a record or skips
\* the item, takes exactly one link off the list, and the loop ends with the
\* list empty.  upsert_entities and upsert_scrape_history are each called at
\* most once in a run; when one of them fails the run ends at once with
\* HTTP 500 and nothing is written afterwards.
C29_NoRetry ==
    [][/\ (pc = "extract" /\ pc' = "extract" /\ (todo' # todo \/ results' # results)) =>
             /\ todo' \subseteq todo
             /\ Cardinality(todo \ todo') = 1
             /\ Len(results') <= Len(results) + 1
       /\ pc \in {"returned", "history", "done"} => (todo' = todo /\ results' = results)
       /\ (pc = "extract" /\ pc' = "returned" /\ "run_failure" \notin events') => todo = {}
       /\ "upsert_entities" \in events => entities' = entities
       /\ "upsert_scrape_history" \in events =>
             (history' = history /\ summary_writes' = summary_writes)
       /\ "db_error" \in events' \ events =>
             /\ pc' = "done"
             /\ outcome' = "http500"
             /\ entities' = entities
             /\ history' = history
       /\ "db_error" \in events => (entities' = entities /\ history' = history)]_vars

\* of two links one gave a record and one was skipped, both were visited, and
\* the run ended with HTTP 500 when upsert_entities failed: nothing is stored
C29_Witness ==
    /\ pc = "done"
    /\ outcome = "http500"
    /\ events = {"end_marker", "upsert_entities", "db_error"}
    /\ Cardinality(place_links) = 2
    /\ todo = {}
    /\ Len(results) = 1
    /\ entities = <<>>
    /\ history = <<>>

\* C31 as stated: the set handed to extraction holds only links read from
\* the feed, and all of them unless the quota truncation was applied.
C31_LinksOnlyFromFeed ==
    pc = "extract" =>
        /\ place_links \subseteq observed
        /\ place_links # observed => "quota" \in events

\* what discovery has come across: the links read from the feed and, after
\* the single-place fallback, the URL of the page
Discovered == observed \cup (IF "single_place" \in events THEN {PageUrl} ELSE {})

\* C31 (amended): while the loop goes on place_links only grows; it holds
\* every link read from the feed so far, and the page URL when the
\* single-place fallback was taken, and nothing else; it is a strict subset
\* of these only once the quota truncation has been applied.
C31_LinksOnlyGrow ==
    /\ [](/\ place_links \subseteq Discovered
          /\ place_links # Discovered => "quota" \in events)
    /\ [][(pc = "scroll" /\ pc' = "scroll") => place_links \subseteq place_links']_vars

\* two links were read and the quota of one has cut the set handed to
\* extraction down to one of them
C31_Witness ==
    /\ pc = "extract"
    /\ max_places = IntV(1)
    /\ "quota" \in events
    /\ Cardinality(observed) = 2
    /\ Cardinality(place_links) = 1
    /\ place_links \subseteq observed

\* C32: every record gathered carries, as its link, one of the discovered
\* identifiers the loop has visited; no two records carry the same link, and
\* there are never more records than identifiers.
C32_OneRecordPerIdentifier ==
    /\ \A i \in 1..Len(results) :
          /\ "link" \in DOMAIN results[i]
          /\ results[i].link \in place_links \ todo
    /\ \A i, j \in 1..Len(results) : results[i].link = results[j].link => i = j
    /\ Len(results) <= Cardinality(place_links)

\* the scraper has returned two records for two identifiers
C32_Witness ==
    /\ pc = "returned"
    /\ "run_failure" \notin events
    /\ Cardinality(place_links) = 2
    /\ Len(results) = 2
    /\ {results[1].link, results[2].link} = place_links

\* C33: once scrape_google_maps has been left, by its return, by its early
\* return, by an exception or by the deadline, no browser is open: the one
\* the run launched is closed, and there is none only when the launch itself
\* failed or was cut off by the deadline.
C33_BrowserClosedOnEveryExit ==
    (pc \in {"returned", "history", "done"} \/ outcome # "none") =>
        /\ browser \in {"none", "closed"}
        /\ browser = "none" => (events \cap {"run_failure", "deadline"} # {})

\* the deadline came while the run was suspended in the extraction loop
C33_Witness ==
    /\ outcome = "http504"
    /\ "deadline" \in events
    /\ todo # {}
    /\ Len(results) = 1
    /\ browser = "closed"

\* C34: a run that reports HTTP 500 or 504 to its caller has committed no
\* entity row (the table was empty when the run began).
C34_FailedRunCommitsNoEntity ==
    outcome \in {"http500", "http504"} => entities = <<>>

\* C35: a run with a max_places returns no more than max_places records
\* (stated for the runs that return a record at all).
C35_NeverMoreThanQuota ==
    (/\ max_places # NoneV
     /\ pc \in {"returned", "history", "done"}
     /\ results # <<>>) =>
        Len(results) <= max_places.v

\* the counter is in range, and below the limit whenever a cycle can start
CounterInRange ==
    /\ scroll_attempts_no_new \in 0..MAX_SCROLL_ATTEMPTS_WITHOUT_NEW_LINKS
    /\ pc = "scroll" => scroll_attempts_no_new < MAX_SCROLL_ATTEMPTS_WITHOUT_NEW_LINKS

\* C30: scroll_attempts_no_new is always in 0..5, it is below 5 whenever a
\* scroll cycle starts, and a step of the run leaves it as it is, adds one to
\* it or puts it back to 0.
C30_CounterBounded ==
    /\ CounterInRange
    /\ [][/\ CounterInRange'
          /\ scroll_attempts_no_new' \in
                 {scroll_attempts_no_new, scroll_attempts_no_new + 1, 0}]_vars

\* the counter has reached 5 and the loop is over
C30_Witness ==
    /\ scroll_attempts_no_new = MAX_SCROLL_ATTEMPTS_WITHOUT_NEW_LINKS
    /\ "stagnation" \in events
    /\ pc = "extract"
    /\ place_links # {}

\* C7: a run that hit the deadline ends with the timeout error, and neither
\* upsert_entities nor upsert_scrape_history was invoked: no row was written.
C7_TimeoutPersistsNothing ==
    /\ "deadline" \in events <=> outcome = "http504"
    /\ outcome = "http504" =>
          /\ "upsert_entities" \notin events
          /\ "upsert_scrape_history" \notin events
          /\ entities = <<>>
          /\ history = <<>>

\* the deadline hit after records had been extracted
C7_Witness == outcome = "http504" /\ Len(results) >= 2

\* C8: when the feed was not found (and the page is no single-place page),
\* the run ends with an error and writes no run summary.
C8_FeedNotFoundAbortsRun ==
    ("feed_not_found" \in events /\ pc = "done") =>
        /\ outcome # "ok"
        /\ history = <<>>

\* C8, amended: when the feed was not found, the scraper closes the browser
\* and returns an empty list without an error; upsert_entities writes nothing,
\* the run summary is written with results_scraped = 0, and the run succeeds
\* unless that write fails.
C8_FeedNotFoundReturnsEmpty ==
    "feed_not_found" \in events =>
        /\ "run_failure" \notin events
        /\ browser = "closed"
        /\ results = <<>>
        /\ entities = <<>>
        /\ pc \in {"returned", "history", "done"}
        /\ pc = "done" =>
              /\ "upsert_scrape_history" \in events
              /\ outcome \in {"ok", "http500"}
              /\ outcome = "http500" => "db_error" \in events
              /\ outcome = "ok" =>
                    /\ HistoryRowsOf(query) # {}
                    /\ \A i \in HistoryRowsOf(query) : history[i].results_scraped = IntV(0)

\* the run of a query whose feed was not found has completed successfully
C8_Witness == "feed_not_found" \in events /\ outcome = "ok"

C10_SuccessWritesOneSummary ==
    /\ "upsert_scrape_history" \in events =>
          /\ pc = "done"
          /\ todo = {}
          /\ "upsert_entities" \in events
    /\ outcome = "ok" =>
          /\ summary_writes = 1
          /\ Cardinality(HistoryRowsOf(query)) = 1
          /\ \A i \in HistoryRowsOf(query) :
                 history[i].results_scraped = IntV(Len(results))
          /\ rows_added = Len(results)

\* max_places = 2, two links discovered by the quota, both extracted, 2 rows
\* reported and a summary of 2
C10_Witness ==
    /\ outcome = "ok"
    /\ max_places = IntV(2)
    /\ "quota" \in events
    /\ Cardinality(place_links) = 2
    /\ Len(results) = 2
    /\ rows_added = 2
    /\ Len(entities) = 2

====
